---- MODULE Spec2Model ----
(***************************************************************************)
(* A model of the stack-attack simulation core: the player (player.rs),    *)
(* the blocks (core/block.rs) and the game state (core/game.rs).           *)
(*                                                                         *)
(* Encodings.                                                              *)
(*   Position (usize, usize)  a pair <<x, y>>; position[1] is .0 (x) and   *)
(*                            position[2] is .1 (y).                       *)
(*   Option<Direction>        0 is None, -1 is Some(-1), 1 is Some(1).     *)
(*   Vec<Block>               a sequence, index 1 is the Vec's index 0.    *)
(*   Option<usize> (an index) 0 is None.                                   *)
(*   Instant / elapsed()      the refresh-rate gates of update and of      *)
(*                            process_input are a nondeterministic         *)
(*                            boolean: the gate is open or it is not.      *)
(***************************************************************************)
EXTENDS Integers, Sequences, FiniteSets, TLC

(* ---- configuration (GameConfig) and model bounds ---------------------- *)
GridSize == 3
BlockFallSpeed == 1
BlockSpawnRate == 2
MaxBlocks == 4
MaxScore == 1

(* ---- program constants ------------------------------------------------ *)
FALL_DELAY == 3
body_height == 2

NoDir == 0
Directions == {-1, 1}
InputActions == {"Left", "Right", "Up", "Restart", "None"}
Cols == 0 .. (GridSize - 1)

VARIABLES player, blocks, game_over, score, block_spawn_counter,
          last_move_direction, op

(* the input fields of the ggez GameAdapter around the game, and a record   *)
(* of its key events                                                        *)
VARIABLES adapter, keylog

gameVars == <<player, blocks, game_over, score, block_spawn_counter,
              last_move_direction>>
vars == <<player, blocks, game_over, score, block_spawn_counter,
          last_move_direction, op, adapter, keylog>>

Indices(bs) == 1 .. Len(bs)

(* ======================= core/block.rs ================================= *)
BlockNew(position) ==
    [position |-> position, falling |-> TRUE, carried |-> FALSE,
     carrying_direction |-> NoDir]

(* spawn_random_block: x is the value drawn by gen_range(0..grid_size). *)
spawn_random_block(x) == BlockNew(<<x, 0>>)

(* ======================= player.rs ===================================== *)
PlayerNew(grid_size) ==
    [position |-> <<IF grid_size % 2 = 0 THEN (grid_size \div 2) - 1
                                         ELSE grid_size \div 2,
                    grid_size - body_height>>,
     in_air |-> FALSE, is_falling |-> FALSE, jump_counter |-> 0,
     just_jumped |-> FALSE, body_size |-> body_height,
     fall_delay_counter |-> 0, grid_size |-> grid_size]

(* a mutant of jump: the player also jumps in the air and while falling *)
jump_in_any_state(p) ==
    IF p.position[2] > 0
    THEN [p EXCEPT !.position = <<p.position[1], p.position[2] - 1>>,
                   !.in_air = TRUE, !.jump_counter = 1, !.just_jumped = TRUE]
    ELSE p

jump(p) ==
    IF ~p.in_air /\ ~p.is_falling /\ p.position[2] > 0
    THEN [p EXCEPT !.position = <<p.position[1], p.position[2] - 1>>,
                   !.in_air = TRUE, !.jump_counter = 1, !.just_jumped = TRUE]
    ELSE p

update_jump(p) ==
    IF p.just_jumped THEN [p EXCEPT !.just_jumped = FALSE]
    ELSE IF p.in_air /\ p.jump_counter > 0
         THEN [p EXCEPT !.jump_counter = p.jump_counter - 1]
         ELSE p

has_support(p, bs, grid_size) ==
    IF p.position[2] >= grid_size - p.body_size THEN TRUE
    ELSE \E i \in Indices(bs) :
            /\ ~bs[i].falling
            /\ bs[i].position[1] = p.position[1]
            /\ bs[i].position[2] = p.position[2] + p.body_size

update_falling_state(p, bs, grid_size) ==
    IF p.in_air THEN p
    ELSE IF ~has_support(p, bs, grid_size)
         THEN IF ~p.is_falling /\ p.fall_delay_counter = 0
              THEN [p EXCEPT !.fall_delay_counter = FALL_DELAY]
              ELSE p
         ELSE [p EXCEPT !.is_falling = FALSE, !.fall_delay_counter = 0]

(* a mutant of apply_gravity: the player falls two rows in a tick *)
apply_gravity_two_rows(p) ==
    IF p.is_falling
    THEN [p EXCEPT !.position = <<p.position[1], p.position[2] + 2>>]
    ELSE p

(* The code's second condition, position.1 < usize::MAX - 1, is true of     *)
(* every row the model can hold: usize is 64 bits wide in the build, so     *)
(* usize::MAX - 1 = 18446744073709551614, far above the largest integer of  *)
(* the model checker (2147483647). The fall therefore never stops by that   *)
(* condition here, exactly as in the code for all rows below that limit.    *)
apply_gravity(p) ==
    IF p.is_falling
    THEN [p EXCEPT !.position = <<p.position[1], p.position[2] + 1>>]
    ELSE p

(* a mutant of update_fall_delay: the fall starts at the first call *)
update_fall_delay_early(p) ==
    IF p.fall_delay_counter > 0
    THEN [p EXCEPT !.fall_delay_counter = p.fall_delay_counter - 1,
                   !.is_falling = IF ~p.in_air THEN TRUE ELSE p.is_falling]
    ELSE p

update_fall_delay(p) ==
    IF p.fall_delay_counter > 0
    THEN LET q == [p EXCEPT !.fall_delay_counter = p.fall_delay_counter - 1]
         IN  IF q.fall_delay_counter = 0 /\ ~q.in_air
             THEN [q EXCEPT !.is_falling = TRUE]
             ELSE q
    ELSE p

land(p, bs, grid_size) ==
    LET q == IF p.in_air /\ p.jump_counter = 0 /\ ~p.just_jumped
             THEN IF ~has_support(p, bs, grid_size)
                  THEN [p EXCEPT !.in_air = FALSE, !.is_falling = TRUE]
                  ELSE [p EXCEPT !.in_air = FALSE]
             ELSE p
    IN  IF q.is_falling /\ has_support(q, bs, grid_size)
        THEN [q EXCEPT !.is_falling = FALSE]
        ELSE q

check_support_after_move(p, grid_size, bs) ==
    IF ~p.in_air /\ ~p.is_falling /\ ~has_support(p, bs, grid_size)
    THEN [p EXCEPT !.fall_delay_counter = FALL_DELAY]
    ELSE p

(* ======================= the entry guards of a move ===================== *)
(* a mutant of can_move_in_direction: the grid has no edge *)
can_move_anywhere(p, move_by, grid_size) == TRUE

can_move_in_direction(p, move_by, grid_size) ==
    IF move_by < 0 THEN p.position[1] > 0
                   ELSE p.position[1] < grid_size - 1

(* blocks.iter().position(..): the lowest index holding pos, 0 for None *)
FirstIndexAt(bs, pos) ==
    LET hits == {i \in Indices(bs) : bs[i].position = pos}
    IN  IF hits = {} THEN 0
        ELSE CHOOSE i \in hits : \A j \in hits : i <= j

RECURSIVE find_blocking_from(_, _, _, _)
find_blocking_from(p, target_x, bs, body_part) ==
    IF body_part >= p.body_size THEN 0
    ELSE LET idx == FirstIndexAt(bs, <<target_x, p.position[2] + body_part>>)
         IN  IF idx # 0 THEN idx
             ELSE find_blocking_from(p, target_x, bs, body_part + 1)

find_blocking_block(p, target_x, bs) == find_blocking_from(p, target_x, bs, 0)

(* a mutant of can_block_move_in_direction: a block is pushed over the edge *)
can_block_move_anywhere(block_x, move_by, grid_size) == TRUE

can_block_move_in_direction(block_x, move_by, grid_size) ==
    IF move_by < 0 THEN block_x > 0 ELSE block_x < grid_size - 1

signum(n) == IF n > 0 THEN 1 ELSE IF n < 0 THEN -1 ELSE 0

(* the result of a movement helper: the player and the blocks after it *)
PB(p, bs) == [player |-> p, blocks |-> bs]

handle_falling_block_movement(p, block_idx, block_target_x, player_target_x, bs) ==
    LET target == <<block_target_x, bs[block_idx].position[2]>>
        is_block_blocked == \E i \in Indices(bs) : bs[i].position = target
        is_player_blocked ==
            \E i \in Indices(bs) \ {block_idx} :
               \E body_part \in 0 .. (p.body_size - 1) :
                  /\ ~(body_part = 0
                        /\ bs[i].position = <<player_target_x, p.position[2]>>)
                  /\ bs[i].position = <<player_target_x, p.position[2] + body_part>>
        is_at_head_level == bs[block_idx].position[2] = p.position[2]
        move_direction == signum(block_target_x - bs[block_idx].position[1])
        marked == IF is_at_head_level
                  THEN [bs[block_idx] EXCEPT !.carried = TRUE,
                                             !.carrying_direction = move_direction]
                  ELSE bs[block_idx]
    IN  IF ~is_block_blocked /\ ~is_player_blocked
        THEN PB([p EXCEPT !.position = <<player_target_x, p.position[2]>>],
                [bs EXCEPT ![block_idx] =
                    [marked EXCEPT !.position = <<block_target_x, marked.position[2]>>]])
        ELSE PB(p, bs)

(* one sweep of the while loop of find_pushable_blocks over column_blocks *)
pushable_sweep(p, column, bs, pushable) ==
    LET player_bottom == p.position[2] + p.body_size - 1
    IN  pushable \cup
        {i \in column \ pushable :
            /\ ~(bs[i].position[2] > player_bottom)
            /\ bs[i].position[2] > 0
            /\ \E j \in pushable : bs[j].position[2] = bs[i].position[2] + 1}

RECURSIVE pushable_fix(_, _, _, _)
pushable_fix(p, column, bs, pushable) ==
    LET next == pushable_sweep(p, column, bs, pushable)
    IN  IF next = pushable THEN pushable
        ELSE pushable_fix(p, column, bs, next)

(* the set of the indices find_pushable_blocks returns *)
find_pushable_blocks(p, block_x, bs) ==
    LET player_top == p.position[2]
        player_bottom == p.position[2] + p.body_size - 1
        column == {i \in Indices(bs) :
                      bs[i].position[1] = block_x /\ ~bs[i].falling}
        seed == {i \in column : bs[i].position[2] >= player_top
                                /\ bs[i].position[2] <= player_bottom}
    IN  IF seed # {} THEN pushable_fix(p, column, bs, seed) ELSE seed

is_path_clear_for_blocks(pushable_indices, target_x, bs) ==
    \A idx \in pushable_indices :
       ~\E i \in Indices(bs) :
            /\ bs[i].position = <<target_x, bs[idx].position[2]>>
            /\ i \notin pushable_indices

handle_normal_block_movement(p, block_x, block_target_x, player_target_x, bs) ==
    LET pushable_indices == find_pushable_blocks(p, block_x, bs)
    IN  IF pushable_indices = {} THEN PB(p, bs)
        ELSE IF ~is_path_clear_for_blocks(pushable_indices, block_target_x, bs)
        THEN PB(p, bs)
        ELSE PB([p EXCEPT !.position = <<player_target_x, p.position[2]>>],
                [i \in Indices(bs) |->
                    IF i \in pushable_indices
                    THEN [bs[i] EXCEPT !.position =
                             <<block_target_x, bs[i].position[2]>>]
                    ELSE bs[i]])

handle_block_collision(p, block_idx, move_by, target_x, grid_size, bs) ==
    LET block == bs[block_idx]
    IN  IF ~can_block_move_in_direction(block.position[1], move_by, grid_size)
        THEN PB(p, bs)
        ELSE LET block_target_x == block.position[1] + move_by
             IN  IF block.falling
                 THEN handle_falling_block_movement(p, block_idx, block_target_x,
                                                    target_x, bs)
                 ELSE handle_normal_block_movement(p, block.position[1],
                                                   block_target_x, target_x, bs)

(* a mutant of move_horizontal: the fall delay does not refuse the move *)
move_during_fall_delay(p, move_by, grid_size, bs) ==
    IF ~can_move_in_direction(p, move_by, grid_size) THEN PB(p, bs)
    ELSE LET target_x == p.position[1] + move_by
             block_idx == find_blocking_block(p, target_x, bs)
             moved == IF block_idx # 0
                      THEN handle_block_collision(p, block_idx, move_by, target_x,
                                                  grid_size, bs)
                      ELSE PB([p EXCEPT !.position = <<target_x, p.position[2]>>], bs)
         IN  PB(check_support_after_move(moved.player, grid_size, moved.blocks),
                moved.blocks)

move_horizontal(p, move_by, grid_size, bs) ==
    IF p.fall_delay_counter > 0 THEN PB(p, bs)
    ELSE IF ~can_move_in_direction(p, move_by, grid_size) THEN PB(p, bs)
    ELSE LET target_x == p.position[1] + move_by
             block_idx == find_blocking_block(p, target_x, bs)
             moved == IF block_idx # 0
                      THEN handle_block_collision(p, block_idx, move_by, target_x,
                                                  grid_size, bs)
                      ELSE PB([p EXCEPT !.position = <<target_x, p.position[2]>>], bs)
         IN  PB(check_support_after_move(moved.player, grid_size, moved.blocks),
                moved.blocks)

move_left(p, bs) == move_horizontal(p, -1, p.grid_size, bs)
move_right(p, bs) == move_horizontal(p, 1, p.grid_size, bs)

(* a mutant of release_carried_blocks: the direction is not compared *)
release_all_carried(bs, current_direction) ==
    [i \in Indices(bs) |->
        IF bs[i].carried
        THEN [bs[i] EXCEPT !.carried = FALSE, !.falling = TRUE,
                           !.carrying_direction = NoDir]
        ELSE bs[i]]

release_carried_blocks(bs, current_direction) ==
    [i \in Indices(bs) |->
        IF bs[i].carried /\ current_direction # bs[i].carrying_direction
        THEN [bs[i] EXCEPT !.carried = FALSE, !.falling = TRUE,
                           !.carrying_direction = NoDir]
        ELSE bs[i]]

(* ======================= core/game.rs =================================== *)
(* a mutant of spawn_block: no block is spawned onto an occupied cell *)
spawn_block_if_free(bs, x) ==
    IF \E i \in Indices(bs) : bs[i].position = <<x, 0>>
    THEN bs
    ELSE Append(bs, spawn_random_block(x))

spawn_block(bs, x) == Append(bs, spawn_random_block(x))

(* a mutant of levitating_pass: a falling block beneath counts as support   *)
RECURSIVE levitating_pass_any_support(_, _, _)
levitating_pass_any_support(acc, i, grid_size) ==
    IF i > Len(acc.blocks) THEN acc
    ELSE LET bs == acc.blocks
             x == bs[i].position[1]
             y == bs[i].position[2]
             support == \E j \in Indices(bs) :
                            /\ bs[j].position[1] = x
                            /\ bs[j].position[2] = y + 1
         IN  IF bs[i].falling \/ y >= grid_size - 1 \/ support
             THEN levitating_pass_any_support(acc, i + 1, grid_size)
             ELSE levitating_pass_any_support(
                     [blocks |-> [bs EXCEPT ![i].falling = TRUE],
                      blocks_changed |-> TRUE], i + 1, grid_size)

(* a mutant of levitating_pass: an unsupported resting block is only marked *)
(* (in carrying_direction) by the pass that finds it and turned by the next *)
RECURSIVE levitating_pass_marking(_, _, _)
levitating_pass_marking(acc, i, grid_size) ==
    IF i > Len(acc.blocks) THEN acc
    ELSE LET bs == acc.blocks
             x == bs[i].position[1]
             y == bs[i].position[2]
             support == \E j \in Indices(bs) :
                            /\ ~bs[j].falling
                            /\ bs[j].position[1] = x
                            /\ bs[j].position[2] = y + 1
         IN  IF bs[i].falling \/ y >= grid_size - 1 \/ support
             THEN levitating_pass_marking(acc, i + 1, grid_size)
             ELSE IF bs[i].carrying_direction = NoDir
             THEN levitating_pass_marking(
                     [blocks |-> [bs EXCEPT ![i].carrying_direction = 1],
                      blocks_changed |-> TRUE], i + 1, grid_size)
             ELSE levitating_pass_marking(
                     [blocks |-> [bs EXCEPT ![i].falling = TRUE,
                                            ![i].carrying_direction = NoDir],
                      blocks_changed |-> TRUE], i + 1, grid_size)

(* the for loop of check_for_levitating_blocks from index i on; acc is the  *)
(* blocks and the blocks_changed flag                                       *)
RECURSIVE levitating_pass(_, _, _)
levitating_pass(acc, i, grid_size) ==
    IF i > Len(acc.blocks) THEN acc
    ELSE LET bs == acc.blocks
             x == bs[i].position[1]
             y == bs[i].position[2]
             support == \E j \in Indices(bs) :
                            /\ ~bs[j].falling
                            /\ bs[j].position[1] = x
                            /\ bs[j].position[2] = y + 1
         IN  IF bs[i].falling THEN levitating_pass(acc, i + 1, grid_size)
             ELSE IF y >= grid_size - 1 THEN levitating_pass(acc, i + 1, grid_size)
             ELSE IF ~support
                  THEN levitating_pass(
                          [blocks |-> [bs EXCEPT ![i].falling = TRUE],
                           blocks_changed |-> TRUE], i + 1, grid_size)
                  ELSE levitating_pass(acc, i + 1, grid_size)

(* a mutant of check_for_levitating_blocks: one pass, no chain reaction *)
levitating_single_pass(bs, grid_size) ==
    levitating_pass([blocks |-> bs, blocks_changed |-> FALSE], 1, grid_size).blocks

RECURSIVE check_for_levitating_blocks(_, _)
check_for_levitating_blocks(bs, grid_size) ==
    LET r == levitating_pass([blocks |-> bs, blocks_changed |-> FALSE], 1, grid_size)
    IN  IF r.blocks_changed THEN check_for_levitating_blocks(r.blocks, grid_size)
        ELSE r.blocks

blocks_in_row(bs, row) ==
    Cardinality({i \in Indices(bs) : ~bs[i].falling /\ bs[i].position[2] = row})

(* Vec::retain: keeps the blocks satisfying keep, in order *)
RECURSIVE retain_not_row(_, _)
retain_not_row(bs, row) ==
    IF bs = <<>> THEN <<>>
    ELSE IF Head(bs).position[2] # row
         THEN <<Head(bs)>> \o retain_not_row(Tail(bs), row)
         ELSE retain_not_row(Tail(bs), row)

(* a mutant of full_row: the scan runs top-down *)
full_row_top_down(bs, grid_size) ==
    LET full == {row \in 0 .. (grid_size - 1) : blocks_in_row(bs, row) = grid_size}
    IN  IF full = {} THEN -1
        ELSE CHOOSE row \in full : \A r \in full : row <= r

(* the row check_full_rows clears: the first full one scanning bottom-up,   *)
(* -1 when no row is full                                                   *)
full_row(bs, grid_size) ==
    LET full == {row \in 0 .. (grid_size - 1) : blocks_in_row(bs, row) = grid_size}
    IN  IF full = {} THEN -1
        ELSE CHOOSE row \in full : \A r \in full : r <= row

check_full_rows(bs, sc, grid_size) ==
    LET row == full_row(bs, grid_size)
    IN  IF row = -1 THEN [blocks |-> bs, score |-> sc]
        ELSE [blocks |-> check_for_levitating_blocks(retain_not_row(bs, row), grid_size),
              score |-> sc + 1]

check_block_player_collision(p, x, new_y) ==
    x = p.position[1] /\ new_y = p.position[2]

check_block_bottom_collision(new_y, grid_size) == new_y >= grid_size

(* a mutant of check_block_block_collision: a falling block stops a fall   *)
(* step as a resting one does                                              *)
check_block_any_collision(bs, block_idx, x, new_y) ==
    \E j \in Indices(bs) :
        /\ block_idx # j
        /\ bs[j].position[1] = x
        /\ bs[j].position[2] = new_y

check_block_block_collision(bs, block_idx, x, new_y) ==
    \E j \in Indices(bs) :
        /\ block_idx # j
        /\ ~bs[j].falling
        /\ bs[j].position[1] = x
        /\ bs[j].position[2] = new_y

(* a mutant of falling_pass: the pass goes on after the player collision *)
RECURSIVE falling_pass_past_collision(_, _, _, _, _)
falling_pass_past_collision(acc, i, p, grid_size, block_fall_speed) ==
    IF i > Len(acc.blocks) THEN acc
    ELSE LET bs == acc.blocks
             x == bs[i].position[1]
             y == bs[i].position[2]
             new_y == y + block_fall_speed
         IN  IF bs[i].carried \/ ~bs[i].falling
             THEN falling_pass_past_collision(acc, i + 1, p, grid_size,
                                              block_fall_speed)
             ELSE IF check_block_player_collision(p, x, new_y)
             THEN falling_pass_past_collision([acc EXCEPT !.game_over = TRUE],
                                              i + 1, p, grid_size, block_fall_speed)
             ELSE IF check_block_bottom_collision(new_y, grid_size)
             THEN falling_pass_past_collision(
                     [acc EXCEPT !.blocks[i].position = <<x, grid_size - 1>>,
                                 !.blocks[i].falling = FALSE],
                     i + 1, p, grid_size, block_fall_speed)
             ELSE IF check_block_block_collision(bs, i, x, new_y)
             THEN falling_pass_past_collision([acc EXCEPT !.blocks[i].falling = FALSE],
                                              i + 1, p, grid_size, block_fall_speed)
             ELSE falling_pass_past_collision(
                     [acc EXCEPT !.blocks[i].position = <<x, new_y>>],
                     i + 1, p, grid_size, block_fall_speed)

(* a mutant of falling_pass: a carried block falls like any falling block *)
RECURSIVE falling_pass_with_carried(_, _, _, _, _)
falling_pass_with_carried(acc, i, p, grid_size, block_fall_speed) ==
    IF i > Len(acc.blocks) THEN acc
    ELSE LET bs == acc.blocks
             x == bs[i].position[1]
             y == bs[i].position[2]
             new_y == y + block_fall_speed
         IN  IF ~bs[i].falling
             THEN falling_pass_with_carried(acc, i + 1, p, grid_size,
                                            block_fall_speed)
             ELSE IF check_block_player_collision(p, x, new_y)
             THEN [acc EXCEPT !.game_over = TRUE]
             ELSE IF check_block_bottom_collision(new_y, grid_size)
             THEN falling_pass_with_carried(
                     [acc EXCEPT !.blocks[i].position = <<x, grid_size - 1>>,
                                 !.blocks[i].falling = FALSE],
                     i + 1, p, grid_size, block_fall_speed)
             ELSE IF check_block_block_collision(bs, i, x, new_y)
             THEN falling_pass_with_carried([acc EXCEPT !.blocks[i].falling = FALSE],
                                            i + 1, p, grid_size, block_fall_speed)
             ELSE falling_pass_with_carried(
                     [acc EXCEPT !.blocks[i].position = <<x, new_y>>],
                     i + 1, p, grid_size, block_fall_speed)

(* the for loop of update_falling_blocks from index i on; acc is the blocks *)
(* and game_over                                                            *)
RECURSIVE falling_pass(_, _, _, _, _)
falling_pass(acc, i, p, grid_size, block_fall_speed) ==
    IF i > Len(acc.blocks) THEN acc
    ELSE LET bs == acc.blocks
             x == bs[i].position[1]
             y == bs[i].position[2]
             new_y == y + block_fall_speed
         IN  IF bs[i].carried
             THEN falling_pass(acc, i + 1, p, grid_size, block_fall_speed)
             ELSE IF ~bs[i].falling
             THEN falling_pass(acc, i + 1, p, grid_size, block_fall_speed)
             ELSE IF check_block_player_collision(p, x, new_y)
             THEN [acc EXCEPT !.game_over = TRUE]
             ELSE IF check_block_bottom_collision(new_y, grid_size)
             THEN falling_pass(
                     [acc EXCEPT !.blocks[i].position = <<x, grid_size - 1>>,
                                 !.blocks[i].falling = FALSE],
                     i + 1, p, grid_size, block_fall_speed)
             ELSE IF check_block_block_collision(bs, i, x, new_y)
             THEN falling_pass([acc EXCEPT !.blocks[i].falling = FALSE],
                               i + 1, p, grid_size, block_fall_speed)
             ELSE falling_pass([acc EXCEPT !.blocks[i].position = <<x, new_y>>],
                               i + 1, p, grid_size, block_fall_speed)

update_falling_blocks(bs, over, p, grid_size, block_fall_speed) ==
    falling_pass([blocks |-> bs, game_over |-> over], 1, p, grid_size,
                 block_fall_speed)

(* a mutant of spawn_due: the spawn comes one call late *)
spawn_due_late(counter, block_spawn_rate) == counter + 1 > block_spawn_rate

(* whether this call of handle_block_spawning spawns *)
spawn_due(counter, block_spawn_rate) == counter + 1 >= block_spawn_rate

handle_block_spawning(bs, counter, block_spawn_rate, x) ==
    IF spawn_due(counter, block_spawn_rate)
    THEN [blocks |-> spawn_block(bs, x), block_spawn_counter |-> 0]
    ELSE [blocks |-> bs, block_spawn_counter |-> counter + 1]

update_player(p, bs, grid_size) ==
    LET p1 == update_jump(p)
        p2 == update_fall_delay(p1)
        p3 == update_falling_state(p2, bs, grid_size)
        p4 == IF p3.is_falling THEN apply_gravity(p3) ELSE p3
    IN  land(p4, bs, grid_size)

(* a game state as a record, the argument and the result of the handlers *)
Game(p, bs, over, sc, counter, lmd) ==
    [player |-> p, blocks |-> bs, game_over |-> over, score |-> sc,
     block_spawn_counter |-> counter, last_move_direction |-> lmd]

GameNew(grid_size, x) ==
    Game(PlayerNew(grid_size), spawn_block(<<>>, x), FALSE, 0, 0, NoDir)

(* a mutant of restart: the score is not reset *)
restart_keeping_score(g, x) ==
    [GameNew(g.player.grid_size, x) EXCEPT !.score = g.score]

(* a mutant of restart: the blocks are not cleared before the spawn *)
restart_keeping_blocks(g, x) ==
    [GameNew(g.player.grid_size, x) EXCEPT !.blocks = spawn_block(g.blocks, x)]

restart(g, x) == GameNew(g.player.grid_size, x)

(* update_blocks up to the call of check_full_rows: the falling-block pass, *)
(* the spawn step and the levitation check; x is the column a spawn draws  *)
before_full_rows(g, x) ==
    LET f == update_falling_blocks(g.blocks, g.game_over, g.player,
                                   g.player.grid_size, BlockFallSpeed)
        s == handle_block_spawning(f.blocks, g.block_spawn_counter,
                                   BlockSpawnRate, x)
        l == check_for_levitating_blocks(s.blocks, g.player.grid_size)
    IN  Game(g.player, l, f.game_over, g.score, s.block_spawn_counter,
             g.last_move_direction)

update_blocks(g, x) ==
    LET m == before_full_rows(g, x)
        c == check_full_rows(m.blocks, m.score, g.player.grid_size)
    IN  [m EXCEPT !.blocks = c.blocks, !.score = c.score]

(* update_blocks, update and the part of update_blocks before the call of  *)
(* check_full_rows, for a game configured with block_fall_speed             *)
before_full_rows_at(g, x, block_fall_speed) ==
    LET f == update_falling_blocks(g.blocks, g.game_over, g.player,
                                   g.player.grid_size, block_fall_speed)
        s == handle_block_spawning(f.blocks, g.block_spawn_counter,
                                   BlockSpawnRate, x)
        l == check_for_levitating_blocks(s.blocks, g.player.grid_size)
    IN  Game(g.player, l, f.game_over, g.score, s.block_spawn_counter,
             g.last_move_direction)

update_blocks_at(g, x, block_fall_speed) ==
    LET m == before_full_rows_at(g, x, block_fall_speed)
        c == check_full_rows(m.blocks, m.score, g.player.grid_size)
    IN  [m EXCEPT !.blocks = c.blocks, !.score = c.score]

(* the game after the update_player call of update *)
after_update_player(g) ==
    [g EXCEPT !.player = update_player(g.player, g.blocks, g.player.grid_size)]

update_at(g, x, block_fall_speed) ==
    IF g.game_over THEN g
    ELSE update_blocks_at(after_update_player(g), x, block_fall_speed)

(* a mutant of update: the tick also runs when the game is over *)
update_when_over(g, x) == update_blocks(after_update_player(g), x)

(* update with the refresh-rate gate open *)
update(g, x) ==
    IF g.game_over THEN g
    ELSE update_blocks(after_update_player(g), x)

(* the game at the call of check_full_rows in a tick that starts in g *)
at_full_rows(g, x) == before_full_rows(after_update_player(g), x)

(* process_input; ready is the last_move_time gate of Left and Right, x the *)
(* column a restart's spawn draws                                           *)
process_input(g, action, ready, x) ==
    IF g.game_over
    THEN IF action = "Restart" THEN restart(g, x) ELSE g
    ELSE IF action = "Restart" THEN restart(g, x)
    ELSE LET m == CASE action = "Left" /\ ready ->
                         LET r == move_left(g.player, g.blocks)
                         IN  [g EXCEPT !.last_move_direction = -1,
                                       !.player = r.player, !.blocks = r.blocks]
                    [] action = "Right" /\ ready ->
                         LET r == move_right(g.player, g.blocks)
                         IN  [g EXCEPT !.last_move_direction = 1,
                                       !.player = r.player, !.blocks = r.blocks]
                    [] action = "Up" -> [g EXCEPT !.player = jump(g.player)]
                    [] action = "None" ->
                         [g EXCEPT !.blocks = release_carried_blocks(g.blocks, NoDir),
                                   !.last_move_direction = NoDir]
                    [] OTHER -> g
         IN  [m EXCEPT !.blocks =
                 check_for_levitating_blocks(
                     release_carried_blocks(m.blocks, m.last_move_direction),
                     g.player.grid_size)]

(* ======================= platform/ggez/mod.rs =========================== *)
(* KeyCode::Left, KeyCode::Right and KeyCode::Up; any other key is ignored  *)
(* by key_down_event and changes nothing in key_up_event.                   *)
Keys == {"Left", "Right", "Up"}
DirectionKeys == {"Left", "Right"}

(* Vec::contains and VecDeque::contains *)
Contains(s, k) == \E i \in 1 .. Len(s) : s[i] = k

(* VecDeque::remove of the one position that holds k *)
Without(s, k) == SelectSeq(s, LAMBDA e : e # k)

(* the input fields of GameAdapter after GameAdapter::new *)
AdapterNew ==
    [held_keys |-> {}, keys_pressed_since_update |-> <<>>,
     direction_press_order |-> <<>>]

(* a mutant of determine_movement: the front of the press order wins *)
determine_movement_front(a) ==
    IF a.keys_pressed_since_update = <<>> THEN "None"
    ELSE IF Contains(a.keys_pressed_since_update, "Up") THEN "Up"
    ELSE IF a.direction_press_order # <<>>
         THEN a.direction_press_order[1]
         ELSE "None"

determine_movement(a) ==
    IF a.keys_pressed_since_update = <<>> THEN "None"
    ELSE IF Contains(a.keys_pressed_since_update, "Up") THEN "Up"
    ELSE IF a.direction_press_order # <<>>
         THEN LET last == a.direction_press_order[Len(a.direction_press_order)]
              IN  IF last \in DirectionKeys THEN last ELSE "None"
         ELSE "None"

(* the step of GameAdapter::update for one held direction key k, and of     *)
(* key_up_event for the direction key that is still held                    *)
push_held(a, k) ==
    [a EXCEPT !.keys_pressed_since_update = Append(@, k),
              !.direction_press_order =
                  IF Contains(@, k) THEN @ ELSE Append(@, k)]

(* the keys GameAdapter::update adds before it calls determine_movement *)
with_held_keys(a) ==
    LET l == IF "Left" \in a.held_keys THEN push_held(a, "Left") ELSE a
    IN  IF "Right" \in l.held_keys THEN push_held(l, "Right") ELSE l

(* GameAdapter::update: ready is the move gate of process_input, tick the   *)
(* refresh-rate gate of GameState::update, x the column a spawn draws; the  *)
(* result is the adapter, the game and the action of the frame ("Skipped"   *)
(* when the game is over and the frame does nothing)                        *)
adapter_update(a, g, ready, tick, x) ==
    IF g.game_over THEN [adapter |-> a, game |-> g, action |-> "Skipped"]
    ELSE LET h == with_held_keys(a)
             action == determine_movement(h)
             g1 == process_input(g, action, ready, x)
         IN  [adapter |-> [h EXCEPT !.keys_pressed_since_update = <<>>,
                                    !.direction_press_order = <<>>],
              game |-> IF tick THEN update(g1, x) ELSE g1,
              action |-> action]

key_down_event(a, over, k) ==
    IF over THEN a
    ELSE [a EXCEPT !.held_keys = @ \cup {k},
                   !.keys_pressed_since_update = Append(@, k),
                   !.direction_press_order =
                       IF k \in DirectionKeys THEN Append(Without(@, k), k)
                       ELSE @]

key_up_event(a, k) ==
    LET r == [a EXCEPT !.held_keys = @ \ {k}]
    IN  IF k # "Up" THEN r
        ELSE IF "Left" \in r.held_keys THEN push_held(r, "Left")
        ELSE IF "Right" \in r.held_keys THEN push_held(r, "Right")
        ELSE r

(* what the frames and the key events have done so far: the action of the   *)
(* last frame, the direction key of the last key_down_event, and the        *)
(* direction keys released and not pressed since                            *)
KeyLogNew == [resolved |-> "NoFrame", latest |-> "NoKey", released |-> {}]

inputVars == <<adapter, keylog>>

(* ======================= the state machine ============================== *)
(* op is the kind of the last call: "new" after GameState::new and after a  *)
(* restart, "input" after any other process_input, "update" after a tick.  *)
Cur == Game(player, blocks, game_over, score, block_spawn_counter,
            last_move_direction)

Becomes(g) ==
    /\ player' = g.player
    /\ blocks' = g.blocks
    /\ game_over' = g.game_over
    /\ score' = g.score
    /\ block_spawn_counter' = g.block_spawn_counter
    /\ last_move_direction' = g.last_move_direction

Init ==
    /\ \E x \in Cols :
          LET g == GameNew(GridSize, x)
          IN  /\ player = g.player
              /\ blocks = g.blocks
              /\ game_over = g.game_over
              /\ score = g.score
              /\ block_spawn_counter = g.block_spawn_counter
              /\ last_move_direction = g.last_move_direction
    /\ op = "new"
    /\ adapter = AdapterNew
    /\ keylog = KeyLogNew

(* a tick: GameState::update with the refresh-rate gate open (with the gate *)
(* closed update changes nothing)                                           *)
Update ==
    /\ \E x \in Cols :
          LET g == update(Cur, x)
          IN  /\ Len(g.blocks) <= MaxBlocks
              /\ g.score <= MaxScore
              /\ Becomes(g)
    /\ op' = "update"
    /\ UNCHANGED inputVars

Input(action) ==
    /\ \E ready \in (IF action \in {"Left", "Right"} THEN BOOLEAN ELSE {TRUE}) :
          Becomes(process_input(Cur, action, ready, 0))
    /\ op' = "input"
    /\ UNCHANGED inputVars

Restart ==
    /\ \E x \in Cols : Becomes(process_input(Cur, "Restart", TRUE, x))
    /\ op' = "new"
    /\ UNCHANGED inputVars

Next ==
    \/ Update
    \/ \E action \in InputActions \ {"Restart"} : Input(action)
    \/ Restart

Spec == Init /\ [][Next]_vars

(* ======================= check_full_rows called on its own ============== *)
(* The tests call check_full_rows on boards they build. RowsSpec does the   *)
(* same: a board is a set of occupied cells, its blocks pushed row by row   *)
(* from the top and passed through check_for_levitating_blocks, as          *)
(* update_blocks does before it calls check_full_rows; the only step is a   *)
(* call of check_full_rows.                                                 *)
Cells == 0 .. (GridSize * GridSize - 1)

CellPosition(k) == <<k % GridSize, k \div GridSize>>

RECURSIVE BoardFrom(_, _)
BoardFrom(occupied, k) ==
    IF k \notin Cells THEN <<>>
    ELSE IF k \in occupied
         THEN <<[BlockNew(CellPosition(k)) EXCEPT !.falling = FALSE]>>
              \o BoardFrom(occupied, k + 1)
         ELSE BoardFrom(occupied, k + 1)

Board(occupied) == check_for_levitating_blocks(BoardFrom(occupied, 0), GridSize)

RowsInit ==
    /\ \E occupied \in SUBSET Cells : blocks = Board(occupied)
    /\ player = PlayerNew(GridSize)
    /\ game_over = FALSE
    /\ score = 0
    /\ block_spawn_counter = 0
    /\ last_move_direction = NoDir
    /\ op = "new"
    /\ adapter = AdapterNew
    /\ keylog = KeyLogNew

RowsCheck ==
    /\ score < MaxScore
    /\ LET c == check_full_rows(blocks, score, GridSize)
       IN  blocks' = c.blocks /\ score' = c.score
    /\ op' = "check_full_rows"
    /\ UNCHANGED inputVars
    /\ UNCHANGED <<player, game_over, block_spawn_counter, last_move_direction>>

RowsNext == RowsCheck

RowsSpec == RowsInit /\ [][RowsNext]_vars

(* ======================= properties ===================================== *)
Resting(b) == ~b.falling /\ ~b.carried

Positions(bs) == [i \in Indices(bs) |-> bs[i].position]

Supported(bs, i) ==
    \/ bs[i].position[2] = GridSize - 1
    \/ \E j \in Indices(bs) :
          /\ ~bs[j].falling
          /\ bs[j].position = <<bs[i].position[1], bs[i].position[2] + 1>>

(* C1: after a tick no cell holds two resting blocks (falling = FALSE,     *)
(* carried = FALSE).                                                        *)
C1_OneRestingBlockPerCell ==
    op = "update" =>
        \A i, j \in Indices(blocks) :
            (i # j /\ Resting(blocks[i]) /\ Resting(blocks[j]))
                => blocks[i].position # blocks[j].position

(* C2: after every update and every process_input, each block with         *)
(* falling = FALSE is on the bottom row or has a block with falling = FALSE *)
(* directly beneath it.                                                     *)
C2_NoFloatingRestingBlock ==
    \A i \in Indices(blocks) : ~blocks[i].falling => Supported(blocks, i)

(* C2 witness: a tick has ended in a state where a horizontal move shifts   *)
(* blocks so that, before the levitation check of process_input, a block    *)
(* with falling = FALSE has nothing beneath it.                             *)
C2_Witness ==
    /\ op = "update"
    /\ ~game_over
    /\ \E d \in Directions :
          LET r == move_horizontal(player, d, GridSize, blocks)
          IN  \E i \in Indices(r.blocks) :
                 ~r.blocks[i].falling /\ ~Supported(r.blocks, i)

(* a falling, non-carried block of g whose fall step ends on row            *)
(* g.player.position[2] + offset of the player's column                     *)
FallsOntoPlayer(g, offset) ==
    \E i \in Indices(g.blocks) :
        /\ g.blocks[i].falling
        /\ ~g.blocks[i].carried
        /\ g.blocks[i].position[1] = g.player.position[1]
        /\ g.blocks[i].position[2] + BlockFallSpeed = g.player.position[2] + offset

(* C3: in a tick, a fall step of a falling, non-carried block into the      *)
(* player's head cell (px, py) or body cell (px, py+1) sets game_over.      *)
C3_FallIntoPlayerEndsGame ==
    ~game_over =>
        LET g == after_update_player(Cur)
        IN  (FallsOntoPlayer(g, 0) \/ FallsOntoPlayer(g, 1))
                => \A x \in Cols : update(Cur, x).game_over

(* C4: while game_over is true, update and every process_input other than   *)
(* Restart leave the game unchanged; Restart yields a new game and is the   *)
(* only step that clears game_over.                                         *)
C4_GameOverIsSticky ==
    [][game_over =>
          \/ op' \in {"input", "update"} /\ UNCHANGED gameVars
          \/ op' = "new" /\ \E x \in Cols : Cur' = GameNew(GridSize, x)]_vars

(* C4 witness: process_input was called while the game was over.            *)
C4_Witness == game_over /\ op = "input"

(* C5: score changes only by +1 in a tick in which a row was full at the    *)
(* row-clear step, or to 0 by a restart; process_input never changes it     *)
(* otherwise, and a restart always leaves it 0.                             *)
C5_ScoreSteps ==
    [][/\ score' # score =>
            \/ /\ op' = "update"
               /\ score' = score + 1
               /\ \E x \in Cols :
                     full_row(at_full_rows(Cur, x).blocks, GridSize) # -1
            \/ op' = "new" /\ score' = 0
       /\ op' = "new" => score' = 0]_vars

(* C5 witness: a tick has cleared a row.                                    *)
C5_Witness == score = 1 /\ op = "update"

(* C6: when check_full_rows clears a row, score grows by 1, exactly         *)
(* grid_size blocks go, all of them resting blocks of that row, and every   *)
(* other block keeps its position.                                          *)
C6_RowClearRemovesTheRow ==
    ~game_over =>
        \A x \in Cols :
            LET m == at_full_rows(Cur, x)
                row == full_row(m.blocks, GridSize)
                c == check_full_rows(m.blocks, m.score, GridSize)
                Kept(b) == b.falling \/ b.position[2] # row
            IN  row # -1 =>
                    /\ c.score = m.score + 1
                    /\ Len(m.blocks) - Len(c.blocks) = GridSize
                    /\ Positions(c.blocks) = Positions(SelectSeq(m.blocks, Kept))

(* the move in direction d is a push of resting blocks: it passes the       *)
(* entry guards and the first block found at the target column rests        *)
IsPush(p, d, bs) ==
    /\ p.fall_delay_counter = 0
    /\ can_move_in_direction(p, d, GridSize)
    /\ LET idx == find_blocking_block(p, p.position[1] + d, bs)
       IN  idx # 0 /\ ~bs[idx].falling

(* the resting blocks of column block_x that a push by the player p is to   *)
(* move: those in the body rows, and those above the body with a resting    *)
(* block of the column in every row between them and the head row           *)
PushSet(p, block_x, bs) ==
    LET RestingAt(y) == \E j \in Indices(bs) :
                            /\ ~bs[j].falling
                            /\ bs[j].position = <<block_x, y>>
    IN  {i \in Indices(bs) :
            /\ ~bs[i].falling
            /\ bs[i].position[1] = block_x
            /\ \/ bs[i].position[2] \in
                      p.position[2] .. (p.position[2] + p.body_size - 1)
               \/ /\ bs[i].position[2] < p.position[2]
                  /\ \A y \in (bs[i].position[2] + 1) .. p.position[2] :
                        RestingAt(y)}

(* the push in direction d is blocked: the pushed column is at the grid     *)
(* edge, or the destination of a block of the pushable set (PushSet) holds  *)
(* a block outside that set                                                 *)
PushBlocked(p, d, bs) ==
    LET block_x == p.position[1] + d
        pushable == PushSet(p, block_x, bs)
    IN  \/ block_x + d \notin Cols
        \/ \E k \in pushable :
              \E i \in Indices(bs) \ pushable :
                 bs[i].position = <<block_x + d, bs[k].position[2]>>

(* C8: a push whose pushed column is at the grid edge, or with a block of   *)
(* the pushable set whose destination is occupied by a block outside the    *)
(* pushable set, changes no block position and not the player's position.   *)
C8_BlockedPushMovesNothing ==
    \A d \in Directions :
        (IsPush(player, d, blocks) /\ PushBlocked(player, d, blocks)) =>
            LET r == move_horizontal(player, d, GridSize, blocks)
            IN  /\ r.player.position = player.position
                /\ Positions(r.blocks) = Positions(blocks)

(* C9: a refused move_left or move_right (the player's column stays the     *)
(* same) changes nothing: no field of the player and no field of a block.   *)
C9_RefusedMoveIsNoOp ==
    ~game_over =>
        \A d \in Directions :
            LET r == move_horizontal(player, d, GridSize, blocks)
            IN  r.player.position = player.position => r = PB(player, blocks)

(* the release law on the blocks bs, for every argument of the call *)
ReleaseLawOn(bs) ==
    \A cur \in Directions \cup {NoDir} :
        LET r == release_carried_blocks(bs, cur)
        IN  /\ Len(r) = Len(bs)
            /\ \A i \in Indices(bs) :
                  IF bs[i].carried /\ bs[i].carrying_direction # cur
                  THEN r[i] = [position |-> bs[i].position,
                               falling |-> TRUE, carried |-> FALSE,
                               carrying_direction |-> NoDir]
                  ELSE r[i] = bs[i]

(* C10: release_carried_blocks(x) leaves a carried block with direction x   *)
(* untouched, releases every other carried block (carried = FALSE,          *)
(* falling = TRUE, direction None), and changes no block that is not        *)
(* carried, no position and not the number of blocks; checked on the blocks *)
(* of every reachable state and on the blocks process_input passes to it    *)
(* after a move.                                                            *)
C10_ReleaseLaw ==
    /\ ReleaseLawOn(blocks)
    /\ \A d \in Directions :
          ReleaseLawOn(move_horizontal(player, d, GridSize, blocks).blocks)

(* C10 witness: process_input has run release_carried_blocks with the       *)
(* direction of a carried block, which is still carried.                    *)
C10_Witness ==
    /\ op = "input"
    /\ \E i \in Indices(blocks) :
          /\ blocks[i].carried
          /\ blocks[i].carrying_direction = last_move_direction
          /\ blocks[i].carrying_direction \in Directions

FullRows(bs) == {row \in Cols : blocks_in_row(bs, row) = GridSize}

LowestRow(rows) == CHOOSE row \in rows : \A r \in rows : r <= row

InRow(bs, row) == {i \in Indices(bs) : bs[i].position[2] = row}

(* one call of check_full_rows on bs removes the blocks of the lower of     *)
(* two or more full rows, and no other block                                *)
ClearsLowestOnly(bs, sc) ==
    LET low == LowestRow(FullRows(bs))
        c == check_full_rows(bs, sc, GridSize)
        Kept(b) == b.position[2] # low
    IN  /\ c.score = sc + 1
        /\ Positions(c.blocks) = Positions(SelectSeq(bs, Kept))

(* C7 as claimed: with two rows full at once, one call of check_full_rows   *)
(* clears the lower one only and leaves the other row full (grid_size       *)
(* resting blocks in it).                                                   *)
C7_OtherRowStaysFull ==
    Cardinality(FullRows(blocks)) >= 2 =>
        /\ ClearsLowestOnly(blocks, score)
        /\ \A row \in FullRows(blocks) \ {LowestRow(FullRows(blocks))} :
              blocks_in_row(check_full_rows(blocks, score, GridSize).blocks, row)
                  = GridSize

(* C7 amended: with two rows full at once, one call of check_full_rows      *)
(* clears the lower one only; the blocks of the other row keep their cells  *)
(* but the cascade of the call turns every one of them to falling.          *)
C7_OtherRowKeptButFalling ==
    Cardinality(FullRows(blocks)) >= 2 =>
        /\ ClearsLowestOnly(blocks, score)
        /\ \A row \in FullRows(blocks) \ {LowestRow(FullRows(blocks))} :
              LET c == check_full_rows(blocks, score, GridSize)
              IN  /\ Cardinality(InRow(c.blocks, row))
                        = Cardinality(InRow(blocks, row))
                  /\ \A i \in InRow(c.blocks, row) : c.blocks[i].falling

(* C7 witness: check_full_rows has cleared the bottom row beneath a row that *)
(* was full: that row still holds a block in every cell, all now falling.   *)
C7_Witness ==
    /\ op = "check_full_rows"
    /\ score = 1
    /\ InRow(blocks, GridSize - 1) = {}
    /\ {blocks[i].position[1] : i \in InRow(blocks, GridSize - 2)} = Cols
    /\ \A i \in InRow(blocks, GridSize - 2) : blocks[i].falling

(* ======================= carrying and pushing =========================== *)
(* the direction an input action resolves to: Left is -1, Right is 1, any   *)
(* other action resolves to no direction                                    *)
ActionDirection(action) ==
    CASE action = "Left" -> -1
      [] action = "Right" -> 1
      [] OTHER -> NoDir

(* C11: after any process_input call on a running game (with the move gate  *)
(* open or closed), a block is carried only if the action of that call is   *)
(* Left or Right and equals the block's carrying_direction; after None, Up  *)
(* or the opposite direction no block is carried.                           *)
C11_CarriedOnlyWhilePushing ==
    ~game_over =>
        \A action \in InputActions \ {"Restart"} :
           \A ready \in BOOLEAN :
              LET g == process_input(Cur, action, ready, 0)
              IN  \A i \in Indices(g.blocks) :
                     g.blocks[i].carried =>
                        /\ ActionDirection(action) # NoDir
                        /\ ActionDirection(action) = g.blocks[i].carrying_direction

(* C12: a push that succeeds (the player reaches the target column) moves   *)
(* by one column exactly the blocks of PushSet, each in its row, and the    *)
(* player; every other block is unchanged.                                  *)
C12_PushMovesTheConnectedColumn ==
    \A d \in Directions :
        IsPush(player, d, blocks) =>
            LET block_x == player.position[1] + d
                r == move_horizontal(player, d, GridSize, blocks)
                moved == PushSet(player, block_x, blocks)
            IN  r.player.position # player.position =>
                   /\ r.player.position = <<block_x, player.position[2]>>
                   /\ Len(r.blocks) = Len(blocks)
                   /\ \A i \in Indices(blocks) :
                         IF i \in moved
                         THEN r.blocks[i] =
                                 [blocks[i] EXCEPT !.position =
                                     <<block_x + d, blocks[i].position[2]>>]
                         ELSE r.blocks[i] = blocks[i]

(* ======================= the game on a wider grid ======================= *)
(* Carrying a block twice in a row takes four columns: the player, the      *)
(* block, and two cells ahead of it. WideSpec is the same game on a grid of *)
(* WideGridSize; spawn_random_block draws the spawn column from every      *)
(* column 0 .. grid_size - 1.                                               *)
WideGridSize == 4
WideMaxBlocks == 3
WideSpawnCols == 0..(WideGridSize - 1)

WideInit ==
    /\ \E x \in WideSpawnCols :
          LET g == GameNew(WideGridSize, x)
          IN  /\ player = g.player
              /\ blocks = g.blocks
              /\ game_over = g.game_over
              /\ score = g.score
              /\ block_spawn_counter = g.block_spawn_counter
              /\ last_move_direction = g.last_move_direction
    /\ op = "new"
    /\ adapter = AdapterNew
    /\ keylog = KeyLogNew

WideUpdate ==
    /\ \E x \in WideSpawnCols :
          LET g == update(Cur, x)
          IN  /\ Len(g.blocks) <= WideMaxBlocks
              /\ g.score <= MaxScore
              /\ Becomes(g)
    /\ op' = "update"
    /\ UNCHANGED inputVars

WideRestart ==
    /\ \E x \in WideSpawnCols : Becomes(process_input(Cur, "Restart", TRUE, x))
    /\ op' = "new"
    /\ UNCHANGED inputVars

WideNext ==
    \/ WideUpdate
    \/ \E action \in InputActions \ {"Restart"} : Input(action)
    \/ WideRestart

WideSpec == WideInit /\ [][WideNext]_vars

(* the move in direction d meets a falling block: it passes the entry       *)
(* guards and the first block found in the body rows at the target column   *)
(* is falling                                                               *)
IsCarry(p, d, bs) ==
    /\ p.fall_delay_counter = 0
    /\ can_move_in_direction(p, d, p.grid_size)
    /\ LET idx == find_blocking_block(p, p.position[1] + d, bs)
       IN  idx # 0 /\ bs[idx].falling

(* the cell the found block moves to is in the grid and holds no block *)
BlockDestinationFree(p, d, bs) ==
    LET idx == find_blocking_block(p, p.position[1] + d, bs)
        dest == <<p.position[1] + 2 * d, bs[idx].position[2]>>
    IN  /\ dest[1] \in 0 .. (p.grid_size - 1)
        /\ \A i \in Indices(bs) : bs[i].position # dest

(* the cells the player's body moves to hold no block but the found one *)
PlayerDestinationFree(p, d, bs) ==
    LET idx == find_blocking_block(p, p.position[1] + d, bs)
    IN  \A i \in Indices(bs) \ {idx} :
           \A body_part \in 0 .. (p.body_size - 1) :
              bs[i].position # <<p.position[1] + d, p.position[2] + body_part>>

(* what C13 says of the move of p in direction d on the blocks bs *)
CarryLaw(p, d, bs) ==
    LET idx == find_blocking_block(p, p.position[1] + d, bs)
        r == move_horizontal(p, d, p.grid_size, bs)
        dest == <<p.position[1] + 2 * d, bs[idx].position[2]>>
    IN  IF BlockDestinationFree(p, d, bs) /\ PlayerDestinationFree(p, d, bs)
        THEN /\ r.player.position = <<p.position[1] + d, p.position[2]>>
             /\ Len(r.blocks) = Len(bs)
             /\ r.blocks[idx] =
                   IF bs[idx].position[2] = p.position[2]
                   THEN [bs[idx] EXCEPT !.position = dest, !.carried = TRUE,
                                        !.carrying_direction = d]
                   ELSE [bs[idx] EXCEPT !.position = dest]
             /\ \A i \in Indices(bs) \ {idx} : r.blocks[i] = bs[i]
        ELSE /\ r.player.position = p.position
             /\ r.player.in_air = p.in_air
             /\ r.player.is_falling = p.is_falling
             /\ r.blocks = bs

(* C13: when the first block found in the body rows at the target column is *)
(* falling: if its destination cell and the player's destination cells are  *)
(* free, the block and the player move one column and the block is marked   *)
(* carried in the move direction exactly when it was at the head row;       *)
(* otherwise nothing moves and no flag changes.                             *)
C13_CarryMovesBlockAndPlayer ==
    \A d \in Directions :
        IsCarry(player, d, blocks) => CarryLaw(player, d, blocks)

(* ======================= carried blocks and gravity ===================== *)
(* C14: a carried block is not touched by the falling-block pass of a tick: *)
(* its position and its flags are the same after update_falling_blocks, and *)
(* after the whole update when the tick clears no row.                      *)
C14_CarriedBlocksSkipGravity ==
    ~game_over =>
        LET g == after_update_player(Cur)
            f == update_falling_blocks(g.blocks, g.game_over, g.player,
                                       GridSize, BlockFallSpeed)
        IN  /\ Len(f.blocks) = Len(blocks)
            /\ \A i \in Indices(blocks) :
                  blocks[i].carried => f.blocks[i] = blocks[i]
            /\ \A x \in Cols :
                  LET u == update(Cur, x)
                  IN  u.score = score =>
                         \A i \in Indices(blocks) :
                            blocks[i].carried => u.blocks[i] = blocks[i]

(* C14 witness: a tick has run over a carried block that has no resting     *)
(* block and not the ground beneath it: it is still carried, in the air.    *)
C14_Witness ==
    /\ op = "update"
    /\ ~game_over
    /\ \E i \in Indices(blocks) :
          /\ blocks[i].carried
          /\ blocks[i].falling
          /\ blocks[i].position[2] < GridSize - 1
          /\ ~\E j \in Indices(blocks) :
                 /\ ~blocks[j].falling
                 /\ blocks[j].position =
                       <<blocks[i].position[1], blocks[i].position[2] + 1>>

(* ======================= moves at the edge and while falling ============ *)
(* n calls of move_horizontal in direction d *)
RECURSIVE move_repeated(_, _, _, _)
move_repeated(p, d, bs, n) ==
    IF n = 0 THEN PB(p, bs)
    ELSE LET r == move_horizontal(p, d, p.grid_size, bs)
         IN  move_repeated(r.player, d, r.blocks, n - 1)

MaxRepetitions == 3

(* C15: with the player at x = 0, any number of move_left calls, and with   *)
(* the player at x = grid_size - 1 any number of move_right calls, change   *)
(* neither the player nor any block.                                        *)
C15_EdgeMovesChangeNothing ==
    \A n \in 1 .. MaxRepetitions :
        /\ player.position[1] = 0 =>
              move_repeated(player, -1, blocks, n) = PB(player, blocks)
        /\ player.position[1] = GridSize - 1 =>
              move_repeated(player, 1, blocks, n) = PB(player, blocks)

(* C15 witness: process_input(Left) has run with the player in column 0 on  *)
(* a board with blocks in the body rows of the next column (a Left from     *)
(* this state leads back to it).                                            *)
C15_Witness ==
    /\ op = "input"
    /\ ~game_over
    /\ last_move_direction = -1
    /\ player.position[1] = 0
    /\ player.fall_delay_counter = 0
    /\ find_blocking_block(player, 1, blocks) # 0
    /\ process_input(Cur, "Left", TRUE, 0) = Cur

(* the move in direction d goes into a free column of the grid: it is not   *)
(* at the edge and no block is in the body rows of the target column        *)
FreeColumn(p, d, bs) ==
    /\ can_move_in_direction(p, d, p.grid_size)
    /\ find_blocking_block(p, p.position[1] + d, bs) = 0

(* C16: while fall_delay_counter > 0 a move_left or move_right leaves the   *)
(* player's x as it is; with fall_delay_counter = 0 and is_falling, a move  *)
(* into a free column of the grid moves the player there and leaves         *)
(* is_falling true.                                                         *)
C16_FallDelayRefusesMoves ==
    \A d \in Directions :
        LET r == move_horizontal(player, d, GridSize, blocks)
        IN  /\ player.fall_delay_counter > 0 =>
                  r.player.position = player.position
            /\ (/\ player.fall_delay_counter = 0
                /\ player.is_falling
                /\ FreeColumn(player, d, blocks)) =>
                  /\ r.player.position =
                        <<player.position[1] + d, player.position[2]>>
                  /\ r.player.is_falling

(* C16 witness: after a tick the player is falling, the delay has run out,  *)
(* and a column next to it is free: the move into it succeeds.              *)
C16_Witness ==
    /\ op = "update"
    /\ ~game_over
    /\ player.is_falling
    /\ player.fall_delay_counter = 0
    /\ \E d \in Directions :
          /\ FreeColumn(player, d, blocks)
          /\ move_horizontal(player, d, GridSize, blocks).player.position[1] =
                player.position[1] + d

(* ======================= the player's methods called on their own ======= *)
(* The player tests build a Player with Player::new, set its public fields  *)
(* position, in_air and is_falling, and call its methods one by one on a    *)
(* board they build. PlayerSpec does the same on boards of at most one      *)
(* block; the private counters start as Player::new sets them and change    *)
(* through the methods only.                                                *)
PlayerBoards ==
    {<<>>} \cup
    {<<[BlockNew(<<x, y>>) EXCEPT !.falling = f]>> :
        x \in Cols, y \in 0 .. (GridSize - 1), f \in BOOLEAN}

(* the variables a method of the player leaves alone *)
restVars == <<blocks, game_over, score, block_spawn_counter, last_move_direction>>

PlayerInit ==
    /\ \E x \in Cols, y \in 0 .. (GridSize - body_height),
          a \in BOOLEAN, f \in BOOLEAN :
          player = [PlayerNew(GridSize) EXCEPT !.position = <<x, y>>,
                                               !.in_air = a, !.is_falling = f]
    /\ blocks \in PlayerBoards
    /\ game_over = FALSE
    /\ score = 0
    /\ block_spawn_counter = 0
    /\ last_move_direction = NoDir
    /\ op = "new"
    /\ adapter = AdapterNew
    /\ keylog = KeyLogNew

PlayerJump ==
    /\ player' = jump(player)
    /\ op' = "jump"
    /\ UNCHANGED inputVars
    /\ UNCHANGED restVars

PlayerUpdateJump ==
    /\ player' = update_jump(player)
    /\ op' = "update_jump"
    /\ UNCHANGED inputVars
    /\ UNCHANGED restVars

PlayerUpdateFallDelay ==
    /\ player' = update_fall_delay(player)
    /\ op' = "update_fall_delay"
    /\ UNCHANGED inputVars
    /\ UNCHANGED restVars

PlayerUpdateFallingState ==
    /\ player' = update_falling_state(player, blocks, GridSize)
    /\ op' = "update_falling_state"
    /\ UNCHANGED inputVars
    /\ UNCHANGED restVars

(* apply_gravity has no lower end: the calls stop one row below the grid *)
PlayerApplyGravity ==
    /\ player.position[2] < GridSize
    /\ player' = apply_gravity(player)
    /\ op' = "apply_gravity"
    /\ UNCHANGED inputVars
    /\ UNCHANGED restVars

PlayerLand ==
    /\ player' = land(player, blocks, GridSize)
    /\ op' = "land"
    /\ UNCHANGED inputVars
    /\ UNCHANGED restVars

PlayerNext ==
    \/ PlayerJump
    \/ PlayerUpdateJump
    \/ PlayerUpdateFallDelay
    \/ PlayerUpdateFallingState
    \/ PlayerApplyGravity
    \/ PlayerLand

PlayerSpec == PlayerInit /\ [][PlayerNext]_vars

(* the player p is on the ground state-wise (not in the air, not falling,   *)
(* no delay pending) but has nothing beneath it on the blocks bs            *)
Unsupported(p, bs) ==
    /\ ~p.in_air
    /\ ~p.is_falling
    /\ p.fall_delay_counter = 0
    /\ ~has_support(p, bs, p.grid_size)

(* a board with a resting block right beneath the player p *)
GroundUnder(p) ==
    <<[BlockNew(<<p.position[1], p.position[2] + p.body_size>>)
          EXCEPT !.falling = FALSE]>>

(* update_falling_state on regained support cancels the delay of s, and     *)
(* the player does not start to fall in the calls that follow               *)
DelayCancelled(s) ==
    LET c == update_falling_state(s, GroundUnder(s), s.grid_size)
    IN  /\ c.fall_delay_counter = 0
        /\ ~c.is_falling
        /\ update_fall_delay(c) = c
        /\ update_falling_state(c, GroundUnder(s), s.grid_size) = c

(* C17: for a player that is not in the air, not falling and unsupported,   *)
(* update_falling_state starts the delay at FALL_DELAY; is_falling is false *)
(* after the 1st and the 2nd update_fall_delay call and true after the 3rd, *)
(* also with update_falling_state called after each of them as a tick does; *)
(* with support regained before the 3rd call, update_falling_state cancels  *)
(* the delay and the player does not start to fall.                         *)
C17_FallsAtThirdDelayCall ==
    Unsupported(player, blocks) =>
        LET Tick(s) == update_falling_state(update_fall_delay(s), blocks, GridSize)
            s0 == update_falling_state(player, blocks, GridSize)
            s1 == update_fall_delay(s0)
            s2 == update_fall_delay(s1)
            s3 == update_fall_delay(s2)
        IN  /\ s0.fall_delay_counter = FALL_DELAY
            /\ ~s0.is_falling /\ ~s1.is_falling /\ ~s2.is_falling
            /\ s3.is_falling
            /\ ~Tick(s0).is_falling
            /\ ~Tick(Tick(s0)).is_falling
            /\ Tick(Tick(Tick(s0))).is_falling
            /\ DelayCancelled(s0) /\ DelayCancelled(s1) /\ DelayCancelled(s2)

(* C17 witness: update_falling_state has just started the delay of a player *)
(* with nothing beneath it.                                                 *)
C17_Witness ==
    /\ op = "update_falling_state"
    /\ player.fall_delay_counter = FALL_DELAY
    /\ ~player.is_falling
    /\ ~player.in_air
    /\ ~has_support(player, blocks, GridSize)

(* C18: apply_gravity on a falling player leaves position.y as it is at     *)
(* y = grid_size - body_size, adds exactly 1 above that row, and never      *)
(* takes the player below that row.                                         *)
C18_GravityStopsAtBottom ==
    (player.is_falling /\ player.position[2] <= GridSize - player.body_size) =>
        LET g == apply_gravity(player)
        IN  /\ g.position[2] <= GridSize - player.body_size
            /\ g.position[2] =
                  IF player.position[2] = GridSize - player.body_size
                  THEN player.position[2]
                  ELSE player.position[2] + 1

(* C19: jump on a player that is not in the air, not falling and below row  *)
(* 0 moves it up one row and sets in_air, jump_counter = 1 and just_jumped; *)
(* on any other player jump changes nothing.                                *)
C19_JumpOnlyFromTheGround ==
    LET j == jump(player)
    IN  IF ~player.in_air /\ ~player.is_falling /\ player.position[2] > 0
        THEN j = [player EXCEPT
                     !.position = <<player.position[1], player.position[2] - 1>>,
                     !.in_air = TRUE, !.jump_counter = 1, !.just_jumped = TRUE]
        ELSE j = player

(* C19 witness: jump has just taken effect. *)
C19_Witness ==
    /\ op = "jump"
    /\ player.in_air
    /\ player.just_jumped
    /\ player.jump_counter = 1
    /\ ~player.is_falling

(* ======================= restart ======================================== *)
(* the start cell of the player on a grid of size n *)
StartCell(n) == <<IF n % 2 = 0 THEN (n \div 2) - 1 ELSE n \div 2, n - 2>>

(* g is a game as restart is to leave it on a grid of size n *)
FreshGame(g, n) ==
    /\ g.player = [position |-> StartCell(n), in_air |-> FALSE,
                   is_falling |-> FALSE, jump_counter |-> 0,
                   just_jumped |-> FALSE, body_size |-> 2,
                   fall_delay_counter |-> 0, grid_size |-> n]
    /\ Len(g.blocks) = 1
    /\ g.blocks[1].falling
    /\ ~g.blocks[1].carried
    /\ g.blocks[1].carrying_direction = NoDir
    /\ g.blocks[1].position[2] = 0
    /\ g.blocks[1].position[1] \in 0 .. (n - 1)
    /\ g.score = 0
    /\ ~g.game_over
    /\ g.block_spawn_counter = 0
    /\ g.last_move_direction = NoDir

(* an odd and an even grid size *)
RestartGridSizes == {GridSize, GridSize + 1}

(* C20: restart on any reachable game, over or not, on an odd and on an     *)
(* even grid, gives the player at the start cell with all flags false and   *)
(* all counters 0, exactly one block, falling and not carried, on row 0,    *)
(* score 0, game_over false, block_spawn_counter 0, last_move_direction     *)
(* None, and the same grid_size; every state that follows GameState::new or *)
(* a restart is such a game.                                                *)
C20_RestartIsAFreshGame ==
    /\ op = "new" => FreshGame(Cur, GridSize)
    /\ \A x \in Cols :
          FreshGame(process_input(Cur, "Restart", TRUE, x), GridSize)
    /\ \A n \in RestartGridSizes :
          \A x \in 0 .. (n - 1) :
             FreshGame(restart([Cur EXCEPT !.player.grid_size = n], x), n)

(* C20 witness: a game that is over, with several blocks and the player     *)
(* away from the start cell, from which Restart leads to a fresh game.      *)
C20_Witness ==
    /\ game_over
    /\ Len(blocks) > 1
    /\ player.position # StartCell(GridSize)
    /\ last_move_direction # NoDir
    /\ block_spawn_counter > 0
    /\ \E x \in Cols :
          FreshGame(process_input(Cur, "Restart", TRUE, x), GridSize)

(* ======================= coordinates ==================================== *)
(* C21: every block is in the grid, 0 <= x < grid_size and                  *)
(* 0 <= y < grid_size, and the player is in the grid with its whole body,   *)
(* 0 <= x < grid_size and 0 <= y <= grid_size - body_size; no coordinate    *)
(* goes below 0.                                                            *)
C21_PositionsInGrid ==
    LET n == player.grid_size
    IN  /\ \A i \in Indices(blocks) :
              /\ blocks[i].position[1] \in 0 .. (n - 1)
              /\ blocks[i].position[2] \in 0 .. (n - 1)
        /\ player.position[1] \in 0 .. (n - 1)
        /\ player.position[2] \in 0 .. (n - player.body_size)

(* C21 witness: a Left has been refused with the player in column 0 and at  *)
(* row 0 (after a jump), next to a block at the edge column, with a block   *)
(* at rest on the bottom row.                                               *)
C21_Witness ==
    /\ op = "input"
    /\ last_move_direction = -1
    /\ player.position = <<0, 0>>
    /\ \E i \in Indices(blocks) : blocks[i].position[1] = 0
    /\ \E i \in Indices(blocks) :
          ~blocks[i].falling /\ blocks[i].position[2] = GridSize - 1
    /\ process_input(Cur, "Left", TRUE, 0) = Cur

(* ======================= check_for_levitating_blocks on its own ========= *)
(* The tests call check_for_levitating_blocks on boards they build, with    *)
(* resting and falling blocks anywhere. LevitationSpec does the same: each  *)
(* cell holds no block, a resting block or a falling block, and the blocks  *)
(* are pushed from the top row down or from the bottom row up.              *)
CellKinds == {"none", "resting", "falling"}

RECURSIVE RawBoardFrom(_, _)
RawBoardFrom(kind, k) ==
    IF k \notin Cells THEN <<>>
    ELSE IF kind[k] = "none" THEN RawBoardFrom(kind, k + 1)
    ELSE <<[BlockNew(CellPosition(k)) EXCEPT !.falling = (kind[k] = "falling")]>>
         \o RawBoardFrom(kind, k + 1)

Reverse(s) == [i \in 1 .. Len(s) |-> s[Len(s) + 1 - i]]

LevitationInit ==
    /\ \E kind \in [Cells -> CellKinds], bottom_up \in BOOLEAN :
          blocks = IF bottom_up THEN Reverse(RawBoardFrom(kind, 0))
                                ELSE RawBoardFrom(kind, 0)
    /\ player = PlayerNew(GridSize)
    /\ game_over = FALSE
    /\ score = 0
    /\ block_spawn_counter = 0
    /\ last_move_direction = NoDir
    /\ op = "new"
    /\ adapter = AdapterNew
    /\ keylog = KeyLogNew

Levitate ==
    /\ blocks' = check_for_levitating_blocks(blocks, GridSize)
    /\ op' = "check_for_levitating_blocks"
    /\ UNCHANGED inputVars
    /\ UNCHANGED <<player, game_over, score, block_spawn_counter,
                   last_move_direction>>

LevitationNext == Levitate

LevitationSpec == LevitationInit /\ [][LevitationNext]_vars

(* the resting block i of bs is connected to the bottom row: every row      *)
(* beneath it in its column holds a resting block                           *)
Grounded(bs, i) ==
    /\ ~bs[i].falling
    /\ \A y \in (bs[i].position[2] + 1) .. (GridSize - 1) :
          \E j \in Indices(bs) :
             ~bs[j].falling /\ bs[j].position = <<bs[i].position[1], y>>

(* C22: check_for_levitating_blocks keeps the number of blocks, every       *)
(* position and every carry flag, and a block is falling after it exactly   *)
(* if it was falling before or was a resting block not connected to the     *)
(* bottom row by resting blocks directly beneath it.                        *)
C22_LevitationTurnsTheUngrounded ==
    LET r == check_for_levitating_blocks(blocks, GridSize)
    IN  /\ Len(r) = Len(blocks)
        /\ \A i \in Indices(blocks) :
              /\ r[i].position = blocks[i].position
              /\ r[i].carried = blocks[i].carried
              /\ r[i].carrying_direction = blocks[i].carrying_direction
              /\ r[i].falling = (blocks[i].falling \/ ~Grounded(blocks, i))

(* C22 witness: a board with a chain reaction (a resting block on a resting *)
(* block that has nothing beneath it) next to a column that stays at rest   *)
(* and a falling block, on which the call turns both blocks of the chain.   *)
C22_Witness ==
    /\ \E i, j \in Indices(blocks) :
          /\ ~blocks[i].falling /\ ~blocks[j].falling
          /\ blocks[j].position = <<blocks[i].position[1], blocks[i].position[2] + 1>>
          /\ ~Grounded(blocks, j)
          /\ check_for_levitating_blocks(blocks, GridSize)[i].falling
          /\ check_for_levitating_blocks(blocks, GridSize)[j].falling
    /\ \E i \in Indices(blocks) :
          /\ Grounded(blocks, i)
          /\ blocks[i].position[2] < GridSize - 1
          /\ ~check_for_levitating_blocks(blocks, GridSize)[i].falling
    /\ \E i \in Indices(blocks) : blocks[i].falling

(* ======================= spawning ======================================= *)
(* b is a block as a spawn creates it on a grid of size n *)
FreshBlock(b, n) ==
    /\ b.position[1] \in 0 .. (n - 1)
    /\ b.position[2] = 0
    /\ b.falling
    /\ ~b.carried
    /\ b.carrying_direction = NoDir

(* the blocks s are the blocks bs with one fresh block in column x pushed   *)
(* at the end                                                               *)
SpawnedOnto(s, bs, x) ==
    /\ Len(s) = Len(bs) + 1
    /\ \A i \in Indices(bs) : s[i] = bs[i]
    /\ FreshBlock(s[Len(s)], GridSize)
    /\ s[Len(s)].position[1] = x

(* C23: the block of a new game and of a restart, and the block the spawn   *)
(* step of a tick pushes, is at (x, 0) with 0 <= x < grid_size, falling,    *)
(* not carried, with no carrying direction; the spawn step changes and      *)
(* removes no block that was there, whatever the spawn cell holds, and a    *)
(* tick without a spawn leaves the blocks of the falling pass as they are.  *)
C23_SpawnAddsOneFreshBlock ==
    /\ op = "new" => SpawnedOnto(blocks, <<>>, blocks[1].position[1])
    /\ \A x \in Cols :
          /\ SpawnedOnto(process_input(Cur, "Restart", TRUE, x).blocks, <<>>, x)
          /\ SpawnedOnto(spawn_block(blocks, x), blocks, x)
          /\ ~game_over =>
                LET g == after_update_player(Cur)
                    f == update_falling_blocks(g.blocks, g.game_over, g.player,
                                               GridSize, BlockFallSpeed)
                    s == handle_block_spawning(f.blocks, g.block_spawn_counter,
                                               BlockSpawnRate, x)
                IN  IF g.block_spawn_counter + 1 >= BlockSpawnRate
                    THEN SpawnedOnto(s.blocks, f.blocks, x)
                    ELSE s.blocks = f.blocks

(* C23 witness: a tick has spawned a block onto a cell that holds another   *)
(* block; both are there.                                                   *)
C23_Witness ==
    /\ op = "update"
    /\ block_spawn_counter = 0
    /\ Len(blocks) >= 2
    /\ FreshBlock(blocks[Len(blocks)], GridSize)
    /\ \E i \in 1 .. (Len(blocks) - 1) :
          blocks[i].position = blocks[Len(blocks)].position

(* ======================= the game behind the ggez adapter =============== *)
(* AdapterSpec is the game driven through GameAdapter: key_down_event and   *)
(* key_up_event for the three keys, the frame handler update, and the       *)
(* restart button. A frame resolves one action, hands it to process_input   *)
(* and calls GameState::update, whose refresh-rate gate is open or closed.  *)
MaxKeysPerFrame == 2
AdapterMaxBlocks == 1

AdapterInit ==
    /\ \E x \in Cols :
          LET g == GameNew(GridSize, x)
          IN  /\ player = g.player
              /\ blocks = g.blocks
              /\ game_over = g.game_over
              /\ score = g.score
              /\ block_spawn_counter = g.block_spawn_counter
              /\ last_move_direction = g.last_move_direction
    /\ op = "new"
    /\ adapter = AdapterNew
    /\ keylog = KeyLogNew

KeyDown(k) ==
    /\ Len(adapter.keys_pressed_since_update) < MaxKeysPerFrame
    /\ adapter' = key_down_event(adapter, game_over, k)
    /\ keylog' = IF game_over \/ k \notin DirectionKeys THEN keylog
                 ELSE [keylog EXCEPT !.latest = k, !.released = @ \ {k}]
    /\ op' = "key_down"
    /\ UNCHANGED gameVars

(* key_up_event runs for any of the keys, held by the adapter or not: a key *)
(* pressed while the game was over is not in held_keys when it is released. *)
KeyUp(k) ==
    /\ Len(adapter.keys_pressed_since_update) < MaxKeysPerFrame
    /\ adapter' = key_up_event(adapter, k)
    /\ keylog' = IF k \in DirectionKeys
                 THEN [keylog EXCEPT !.released = @ \cup {k}]
                 ELSE keylog
    /\ op' = "key_up"
    /\ UNCHANGED gameVars

Frame ==
    /\ \E ready \in BOOLEAN, tick \in BOOLEAN, x \in Cols :
          LET r == adapter_update(adapter, Cur, ready, tick, x)
          IN  /\ Len(r.game.blocks) <= AdapterMaxBlocks
              /\ Becomes(r.game)
              /\ adapter' = r.adapter
              /\ keylog' = [keylog EXCEPT !.resolved = r.action]
    /\ op' = "frame"

(* mouse_button_down_event on the restart button *)
MouseRestart ==
    /\ \E x \in Cols : Becomes(restart(Cur, x))
    /\ op' = "new"
    /\ UNCHANGED inputVars

AdapterNext ==
    \/ \E k \in Keys : KeyDown(k)
    \/ \E k \in Keys : KeyUp(k)
    \/ Frame
    \/ MouseRestart

AdapterSpec == AdapterInit /\ [][AdapterNext]_vars

(* C24: in a frame of a running game with Left and Right both held and no   *)
(* Up among the keys pressed since the last frame, the action resolved is   *)
(* the direction key of the latest key_down_event.                          *)
C24_LatestDirectionWins ==
    [][(/\ op' = "frame"
        /\ ~game_over
        /\ DirectionKeys \subseteq adapter.held_keys
        /\ ~Contains(adapter.keys_pressed_since_update, "Up"))
       => keylog'.resolved = keylog.latest]_vars

(* the keys a frame arbitrates: the adapter as update hands it to           *)
(* determine_movement, and the adapter as it is (the test calls             *)
(* determine_movement on the fields it has set)                             *)
Arbitrated == {adapter, with_held_keys(adapter)}

(* C25: determine_movement returns None when no key was pressed or held     *)
(* since the last frame, Up whenever Up is among the keys pressed since the *)
(* last frame, and otherwise the direction at the back of the direction     *)
(* press order, which is then not empty.                                    *)
C25_DetermineMovement ==
    \A a \in Arbitrated :
        LET pressed == a.keys_pressed_since_update
            order == a.direction_press_order
            m == determine_movement(a)
        IN  /\ pressed = <<>> => m = "None"
            /\ Contains(pressed, "Up") => m = "Up"
            /\ (pressed # <<>> /\ ~Contains(pressed, "Up")) =>
                  /\ order # <<>>
                  /\ order[Len(order)] \in DirectionKeys
                  /\ m = order[Len(order)]

(* C25 witness: a frame has resolved Up with both direction keys held and   *)
(* in the press order.                                                      *)
C25_Witness ==
    /\ op = "frame"
    /\ keylog.resolved = "Up"
    /\ DirectionKeys \subseteq adapter.held_keys

(* C26: a frame of a running game never resolves to a direction key that    *)
(* has been released and not pressed since.                                 *)
C26_ReleasedKeyIsNotResolved ==
    [][(op' = "frame" /\ ~game_over)
       => keylog'.resolved \notin keylog.released]_vars

(* ---------------------------------------------------------------------- *)
(* C27: the outcome of a tick does not depend on the order of the blocks   *)
(* in the collection. For the current state and every state that differs   *)
(* from it only by a permutation of the blocks vector, update with the     *)
(* same spawned column, and process_input with the same action, give       *)
(* states whose blocks are again permutations of each other and whose      *)
(* score, game_over and player are equal.                                  *)
(* ---------------------------------------------------------------------- *)
BlockOrders(n) ==
    {f \in [1..n -> 1..n] : \A i, j \in 1..n : f[i] = f[j] => i = j}

Permuted(bs, f) == [i \in 1..Len(bs) |-> bs[f[i]]]

Occurrences(bs) ==
    [b \in {bs[i] : i \in Indices(bs)} |->
        Cardinality({i \in Indices(bs) : bs[i] = b})]

SameUpToBlockOrder(g, h) ==
    /\ Occurrences(g.blocks) = Occurrences(h.blocks)
    /\ g.score = h.score
    /\ g.game_over = h.game_over
    /\ g.player = h.player

UpdateIgnoresBlockOrder ==
    \A f \in BlockOrders(Len(blocks)) : \A x \in Cols :
        SameUpToBlockOrder(update(Cur, x),
                           update([Cur EXCEPT !.blocks = Permuted(blocks, f)], x))

InputIgnoresBlockOrder ==
    \A f \in BlockOrders(Len(blocks)) :
        \A action \in InputActions \ {"Restart"} :
            SameUpToBlockOrder(
                process_input(Cur, action, TRUE, 0),
                process_input([Cur EXCEPT !.blocks = Permuted(blocks, f)],
                              action, TRUE, 0))

C27_BlockOrderIrrelevant == UpdateIgnoresBlockOrder /\ InputIgnoresBlockOrder

(* ---------------------------------------------------------------------- *)
(* The falling-block pass of a tick, block by block. TickPass is the state *)
(* the pass of this tick starts from (update_player has run). ArrivesAt is *)
(* the blocks and game_over the pass has when it comes to index k: the     *)
(* pass over the vector whose blocks from k on are skipped (a carried      *)
(* block is skipped and no collision check reads the carried flag), with   *)
(* those blocks put back as they were. PassResult is the finished pass.    *)
(* ---------------------------------------------------------------------- *)
TickPass == after_update_player(Cur)

ArrivesAt(g, k) ==
    LET masked == [i \in Indices(g.blocks) |->
                      IF i >= k THEN [g.blocks[i] EXCEPT !.carried = TRUE]
                      ELSE g.blocks[i]]
        r == update_falling_blocks(masked, g.game_over, g.player,
                                   g.player.grid_size, BlockFallSpeed)
    IN  [blocks |-> [i \in Indices(g.blocks) |->
                        IF i >= k THEN g.blocks[i] ELSE r.blocks[i]],
         game_over |-> r.game_over]

PassResult(g) ==
    update_falling_blocks(g.blocks, g.game_over, g.player,
                          g.player.grid_size, BlockFallSpeed)

(* the pass comes to block k and gives it a fall step *)
StepsBlock(g, k) ==
    /\ ~ArrivesAt(g, k).game_over
    /\ g.blocks[k].falling
    /\ ~g.blocks[k].carried

HitsPlayer(g, k) ==
    /\ g.blocks[k].position[1] = g.player.position[1]
    /\ g.blocks[k].position[2] + BlockFallSpeed = g.player.position[2]

HitsFloor(g, k) ==
    g.blocks[k].position[2] + BlockFallSpeed >= g.player.grid_size

HitsRestingBlock(g, k) ==
    LET bs == ArrivesAt(g, k).blocks
    IN  \E j \in Indices(bs) \ {k} :
           /\ ~bs[j].falling
           /\ bs[j].position = <<g.blocks[k].position[1],
                                 g.blocks[k].position[2] + BlockFallSpeed>>

(* C28: a fall step of a falling, non-carried block has exactly one        *)
(* outcome, in this priority: its destination is the player's head cell    *)
(* and game_over is set; else the destination row is below the grid and    *)
(* the block rests on the bottom row; else another resting block is in the *)
(* destination and the block rests where it is; else the block moves to    *)
(* the destination and stays falling. Its column never changes.            *)
C28_FallStepOutcome ==
    ~game_over =>
        LET g == TickPass
            f == PassResult(g)
        IN  \A k \in Indices(g.blocks) :
               StepsBlock(g, k) =>
                  LET b == g.blocks[k]
                      x == b.position[1]
                      new_y == b.position[2] + BlockFallSpeed
                  IN  /\ f.blocks[k].position[1] = x
                      /\ IF HitsPlayer(g, k)
                         THEN f.game_over
                         ELSE /\ ~ArrivesAt(g, k + 1).game_over
                              /\ f.blocks[k] =
                                   IF HitsFloor(g, k)
                                   THEN [b EXCEPT !.position = <<x, g.player.grid_size - 1>>,
                                                  !.falling = FALSE]
                                   ELSE IF HitsRestingBlock(g, k)
                                   THEN [b EXCEPT !.falling = FALSE]
                                   ELSE [b EXCEPT !.position = <<x, new_y>>]

(* C28 witness: a tick is about to run whose pass lands one block on the   *)
(* floor, stops another on a resting block and moves a third one down.     *)
C28_Witness ==
    /\ ~game_over
    /\ LET g == TickPass
       IN  \E k1, k2, k3 \in Indices(g.blocks) :
              /\ StepsBlock(g, k1) /\ ~HitsPlayer(g, k1) /\ HitsFloor(g, k1)
              /\ StepsBlock(g, k2) /\ ~HitsPlayer(g, k2) /\ ~HitsFloor(g, k2)
              /\ HitsRestingBlock(g, k2)
              /\ StepsBlock(g, k3) /\ ~HitsPlayer(g, k3) /\ ~HitsFloor(g, k3)
              /\ ~HitsRestingBlock(g, k3)

(* C29: when the pass meets the player at the block with index i it stops  *)
(* at once: that block and every block after it keep the position and the  *)
(* falling flag they had before the pass, and the blocks before it keep    *)
(* the result of their fall step.                                          *)
C29_CollisionStopsThePass ==
    ~game_over =>
        LET g == TickPass
            f == PassResult(g)
        IN  \A i \in Indices(g.blocks) :
               (StepsBlock(g, i) /\ HitsPlayer(g, i)) =>
                  /\ f.game_over
                  /\ Len(f.blocks) = Len(g.blocks)
                  /\ \A j \in Indices(g.blocks) :
                        /\ j >= i => f.blocks[j] = g.blocks[j]
                        /\ j < i => f.blocks[j] = ArrivesAt(g, i).blocks[j]

(* C29 witness: a tick is about to run whose pass moves a block, then      *)
(* meets the player, with a falling block after the colliding one.         *)
C29_Witness ==
    /\ ~game_over
    /\ LET g == TickPass
       IN  \E h, i, j \in Indices(g.blocks) :
              /\ h < i /\ i < j
              /\ StepsBlock(g, h)
              /\ StepsBlock(g, i) /\ HitsPlayer(g, i)
              /\ g.blocks[j].falling /\ ~g.blocks[j].carried

(* ---------------------------------------------------------------------- *)
(* C30: a successful jump followed only by ticks. After the 1st tick       *)
(* in_air is still true; the 2nd tick ends the jump: in_air is false, and  *)
(* is_falling is true if the player has no support where it is, false if   *)
(* it has; and if the player had support where it jumped from and that     *)
(* cell has support at every tick, after the 3rd tick the player is back   *)
(* on its original row with in_air and is_falling false. A tick is an      *)
(* update that runs: the game is not over when it starts.                  *)
(* ---------------------------------------------------------------------- *)
CanJump(p) == ~p.in_air /\ ~p.is_falling /\ p.position[2] > 0

SpawnColumns == 0..(player.grid_size - 1)

C30_JumpTiming ==
    (~game_over /\ CanJump(player)) =>
        LET n == player.grid_size
            g0 == process_input(Cur, "Up", TRUE, 0)
        IN  /\ g0.player.in_air
            /\ g0.player.position = <<player.position[1], player.position[2] - 1>>
            /\ \A x1 \in SpawnColumns :
                 LET g1 == update(g0, x1)
                 IN  /\ g1.player.in_air
                     /\ ~g1.player.just_jumped
                     /\ ~g1.game_over =>
                          \A x2 \in SpawnColumns :
                             LET g2 == update(g1, x2)
                                 supported == has_support(g1.player, g1.blocks, n)
                             IN  /\ ~g2.player.in_air
                                 /\ g2.player.is_falling = ~supported
                                 /\ (/\ ~g2.game_over
                                     /\ has_support(player, blocks, n)
                                     /\ has_support(player, g0.blocks, n)
                                     /\ has_support(player, g1.blocks, n)
                                     /\ has_support(player, g2.blocks, n)) =>
                                       \A x3 \in SpawnColumns :
                                          LET g3 == update(g2, x3)
                                          IN  /\ g3.player.position = player.position
                                              /\ ~g3.player.in_air
                                              /\ ~g3.player.is_falling

(* ---------------------------------------------------------------------- *)
(* C31: a successful horizontal move that leaves a player who is neither   *)
(* in_air nor is_falling without support sets fall_delay_counter to        *)
(* FALL_DELAY and leaves is_falling false; a move made while in_air or     *)
(* is_falling does not start the fall delay; and while the fall delay runs *)
(* the player's y does not change: no input changes it, and no tick        *)
(* changes it but the one in which the counter reaches 0.                  *)
(* ---------------------------------------------------------------------- *)
MoveStartsFallDelay ==
    \A d \in Directions :
        LET r == move_horizontal(player, d, player.grid_size, blocks)
        IN  /\ (/\ r.player.position # player.position
                /\ ~r.player.in_air
                /\ ~r.player.is_falling
                /\ ~has_support(r.player, r.blocks, player.grid_size))
                  => /\ r.player.fall_delay_counter = FALL_DELAY
                     /\ ~r.player.is_falling
            /\ (player.in_air \/ player.is_falling)
                  => r.player.fall_delay_counter = player.fall_delay_counter

TicksKeepRowDuringFallDelay ==
    player.fall_delay_counter > 1 =>
        \A x \in SpawnColumns :
            update(Cur, x).player.position[2] = player.position[2]

InputsKeepRowDuringFallDelay ==
    player.fall_delay_counter > 0 =>
        \A action \in InputActions \ {"Restart"} :
            process_input(Cur, action, TRUE, 0).player.position[2]
                = player.position[2]

C31_FallDelayAfterMove ==
    ~game_over =>
        /\ MoveStartsFallDelay
        /\ TicksKeepRowDuringFallDelay
        /\ InputsKeepRowDuringFallDelay

(* ---------------------------------------------------------------------- *)
(* C32: with block_spawn_rate = r >= 1, handle_block_spawning adds exactly *)
(* one block on every r-th call and none on the other calls, and resets    *)
(* block_spawn_counter to 0 on each spawn, so 0 <= block_spawn_counter < r *)
(* after every tick.                                                       *)
(* ---------------------------------------------------------------------- *)
(* n calls of handle_block_spawning, each spawn in column x *)
RECURSIVE spawning_repeated(_, _, _, _, _)
spawning_repeated(bs, counter, block_spawn_rate, x, n) ==
    IF n = 0 THEN [blocks |-> bs, block_spawn_counter |-> counter]
    ELSE LET s == handle_block_spawning(bs, counter, block_spawn_rate, x)
         IN  spawning_repeated(s.blocks, s.block_spawn_counter, block_spawn_rate,
                               x, n - 1)

MaxSpawnRate == 3
MaxSpawnCalls == 7

C32_SpawnEveryRthCall ==
    /\ block_spawn_counter >= 0
    /\ block_spawn_counter < BlockSpawnRate
    /\ \A n \in 1..MaxSpawnCalls :
          LET before == spawning_repeated(blocks, block_spawn_counter,
                                          BlockSpawnRate, 0, n - 1)
              after == spawning_repeated(blocks, block_spawn_counter,
                                         BlockSpawnRate, 0, n)
              rth == (block_spawn_counter + n) % BlockSpawnRate = 0
          IN  /\ rth => /\ Len(after.blocks) = Len(before.blocks) + 1
                        /\ after.block_spawn_counter = 0
              /\ ~rth => /\ after.blocks = before.blocks
                         /\ after.block_spawn_counter = before.block_spawn_counter + 1
    /\ \A r \in 1..MaxSpawnRate : \A n \in 0..MaxSpawnCalls :
          LET s == spawning_repeated(blocks, 0, r, 0, n)
          IN  /\ Len(s.blocks) = Len(blocks) + (n \div r)
              /\ s.block_spawn_counter = n % r

(* C32 witness: a tick has made the r-th call since the last spawn: the    *)
(* counter is back at 0 and the new block is the last of three.            *)
C32_Witness ==
    /\ op = "update"
    /\ ~game_over
    /\ block_spawn_counter = 0
    /\ Len(blocks) = 3
    /\ blocks[3].position[2] = 0

(* ---------------------------------------------------------------------- *)
(* C33: check_for_levitating_blocks terminates for every block             *)
(* configuration: each pass that recurses has turned at least one resting  *)
(* block into a falling one, so the call makes at most (number of resting  *)
(* blocks) + 1 passes.                                                     *)
(* ---------------------------------------------------------------------- *)
RestingCount(bs) == Cardinality({i \in Indices(bs) : ~bs[i].falling})

(* the passes of check_for_levitating_blocks on bs, at most limit of them: *)
(* how many ran, whether the last one found nothing to change, the blocks  *)
(* it left, and whether every pass that recursed turned a resting block    *)
RECURSIVE LevitationRun(_, _, _)
LevitationRun(bs, grid_size, limit) ==
    IF limit = 0
    THEN [passes |-> 0, finished |-> FALSE, blocks |-> bs, turning |-> TRUE]
    ELSE LET r == levitating_pass([blocks |-> bs, blocks_changed |-> FALSE], 1,
                                  grid_size)
             turned == \E i \in Indices(bs) : ~bs[i].falling /\ r.blocks[i].falling
         IN  IF ~r.blocks_changed
             THEN [passes |-> 1, finished |-> TRUE, blocks |-> r.blocks,
                   turning |-> TRUE]
             ELSE LET rest == LevitationRun(r.blocks, grid_size, limit - 1)
                  IN  [rest EXCEPT !.passes = rest.passes + 1,
                                   !.turning = rest.turning /\ turned]

C33_LevitationTerminates ==
    LET run == LevitationRun(blocks, GridSize, RestingCount(blocks) + 1)
    IN  /\ run.finished
        /\ run.turning
        /\ run.passes <= RestingCount(blocks) + 1
        /\ run.blocks = check_for_levitating_blocks(blocks, GridSize)

(* C33 witness: a board on which the call needs every pass the bound       *)
(* allows: two resting blocks, each of the first two passes turns one of   *)
(* them and the third finds nothing to change.                             *)
C33_Witness ==
    /\ op = "new"
    /\ RestingCount(blocks) = 2
    /\ LevitationRun(blocks, GridSize, 3).finished
    /\ LevitationRun(blocks, GridSize, 3).passes = 3

(* ---------------------------------------------------------------------- *)
(* C34: in every state in which update or process_input has returned with *)
(* game_over false, no block (resting, falling or carried) is in the       *)
(* player's head cell (px, py) or body cell (px, py + 1).                  *)
(* ---------------------------------------------------------------------- *)
PlayerCells(p) ==
    {<<p.position[1], p.position[2] + body_part>> : body_part \in 0..(p.body_size - 1)}

C34_NoBlockInsideThePlayer ==
    (~game_over /\ op \in {"update", "input"}) =>
        \A i \in Indices(blocks) : blocks[i].position \notin PlayerCells(player)

(* ---------------------------------------------------------------------- *)
(* C35: in every reachable state the player's in_air and is_falling are    *)
(* never both true, and just_jumped or jump_counter > 0 implies in_air.    *)
(* ---------------------------------------------------------------------- *)
C35_PlayerFlagsConsistent ==
    /\ ~(player.in_air /\ player.is_falling)
    /\ (player.just_jumped \/ player.jump_counter > 0) => player.in_air

(* C35 witness: a tick has left the player falling above the bottom: the   *)
(* jump or the fall delay that led there has ended, in_air is false and    *)
(* the jump counter is 0.                                                  *)
C35_Witness ==
    /\ op = "update"
    /\ ~game_over
    /\ player.is_falling
    /\ ~player.in_air
    /\ player.jump_counter = 0
    /\ player.position[2] < player.grid_size - player.body_size

(* ---------------------------------------------------------------------- *)
(* C36: in every reachable state each block's flags are consistent: a      *)
(* carried block is falling and has carrying_direction Some(-1) or         *)
(* Some(1), and a block that is not carried has carrying_direction None;   *)
(* so a carried block is never a resting block, which is what support,     *)
(* full rows and landing look for.                                         *)
(* ---------------------------------------------------------------------- *)
C36_BlockFlagsConsistent ==
    \A i \in Indices(blocks) :
        /\ blocks[i].carried =>
              /\ blocks[i].falling
              /\ blocks[i].carrying_direction \in Directions
        /\ ~blocks[i].carried => blocks[i].carrying_direction = NoDir

(* C36 witness: a move has just made a block carried, and a tick has run    *)
(* over it since: the block is still carried, falling, with a direction.   *)
C36_Witness ==
    /\ op = "update"
    /\ ~game_over
    /\ \E i \in Indices(blocks) :
          /\ blocks[i].carried
          /\ blocks[i].falling
          /\ blocks[i].carrying_direction = last_move_direction
          /\ last_move_direction \in Directions

(* ---------------------------------------------------------------------- *)
(* the row-clear step of a tick                                            *)
(* ---------------------------------------------------------------------- *)
(* every cell of the row holds a resting block of bs *)
RowComplete(bs, row, grid_size) ==
    \A x \in 0..(grid_size - 1) :
        \E i \in Indices(bs) : ~bs[i].falling /\ bs[i].position = <<x, row>>

(* C37: check_full_rows removes a row only if each of the grid_size cells  *)
(* of that row holds a resting block at that moment, and it removes no     *)
(* block that is falling or carried.                                       *)
C37_OnlyCompleteRowsOfRestingBlocksGo ==
    ~game_over =>
        \A x \in Cols :
            LET m == at_full_rows(Cur, x)
                row == full_row(m.blocks, GridSize)
                c == check_full_rows(m.blocks, m.score, GridSize)
            IN  Len(c.blocks) < Len(m.blocks) =>
                    /\ row # -1
                    /\ RowComplete(m.blocks, row, GridSize)
                    /\ \A i \in Indices(m.blocks) :
                          (m.blocks[i].falling \/ m.blocks[i].carried)
                              => m.blocks[i].position[2] # row

(* C38: whenever, at the row-clear step of a tick, every cell of some row  *)
(* holds a resting block, that tick's check_full_rows removes a row and    *)
(* increases score.                                                        *)
C38_CompleteRowIsCleared ==
    ~game_over =>
        \A x \in Cols :
            LET m == at_full_rows(Cur, x)
                c == check_full_rows(m.blocks, m.score, GridSize)
            IN  (\E row \in 0..(GridSize - 1) : RowComplete(m.blocks, row, GridSize))
                    => /\ c.score = m.score + 1
                       /\ Len(c.blocks) < Len(m.blocks)

(* ---------------------------------------------------------------------- *)
(* The game with room for five blocks, the spawns drawn from every column. *)
(* With block_spawn_rate 2 a block comes to rest on the bottom row three   *)
(* ticks after the tick that spawned it, so the fourth block is at rest    *)
(* only when a fifth is on the board.                                      *)
(* ---------------------------------------------------------------------- *)
CrowdedMaxBlocks == 5
CrowdedSpawnCols == 0..(GridSize - 1)

CrowdedInit ==
    /\ \E x \in CrowdedSpawnCols :
          LET g == GameNew(GridSize, x)
          IN  /\ player = g.player
              /\ blocks = g.blocks
              /\ game_over = g.game_over
              /\ score = g.score
              /\ block_spawn_counter = g.block_spawn_counter
              /\ last_move_direction = g.last_move_direction
    /\ op = "new"
    /\ adapter = AdapterNew
    /\ keylog = KeyLogNew

CrowdedUpdate ==
    /\ \E x \in CrowdedSpawnCols :
          LET g == update(Cur, x)
          IN  /\ Len(g.blocks) <= CrowdedMaxBlocks
              /\ g.score <= MaxScore
              /\ Becomes(g)
    /\ op' = "update"
    /\ UNCHANGED inputVars

CrowdedRestart ==
    /\ \E x \in CrowdedSpawnCols : Becomes(process_input(Cur, "Restart", TRUE, x))
    /\ op' = "new"
    /\ UNCHANGED inputVars

CrowdedNext ==
    \/ CrowdedUpdate
    \/ \E action \in InputActions \ {"Restart"} : Input(action)
    \/ CrowdedRestart

CrowdedSpec == CrowdedInit /\ [][CrowdedNext]_vars

(* ---------------------------------------------------------------------- *)
(* The game configured with block_fall_speed 2.                            *)
(* ---------------------------------------------------------------------- *)
FastFallSpeed == 2

FastInit ==
    /\ \E x \in Cols :
          LET g == GameNew(GridSize, x)
          IN  /\ player = g.player
              /\ blocks = g.blocks
              /\ game_over = g.game_over
              /\ score = g.score
              /\ block_spawn_counter = g.block_spawn_counter
              /\ last_move_direction = g.last_move_direction
    /\ op = "new"
    /\ adapter = AdapterNew
    /\ keylog = KeyLogNew

FastUpdate ==
    /\ \E x \in Cols :
          LET g == update_at(Cur, x, FastFallSpeed)
          IN  /\ Len(g.blocks) <= MaxBlocks
              /\ g.score <= MaxScore
              /\ Becomes(g)
    /\ op' = "update"
    /\ UNCHANGED inputVars

FastNext ==
    \/ FastUpdate
    \/ \E action \in InputActions \ {"Restart"} : Input(action)
    \/ Restart

FastSpec == FastInit /\ [][FastNext]_vars

(* the games n ticks lead to from the games of S, over all spawn columns *)
RECURSIVE AfterTicks(_, _, _)
AfterTicks(S, n, block_fall_speed) ==
    IF n = 0 THEN S
    ELSE AfterTicks({update_at(g, x, block_fall_speed) : g \in S, x \in Cols},
                    n - 1, block_fall_speed)

(* block i of bs rests on the bottom row or directly on a resting block *)
AtRest(bs, i, grid_size) ==
    /\ ~bs[i].falling
    /\ \/ bs[i].position[2] = grid_size - 1
       \/ \E j \in Indices(bs) \ {i} :
             /\ ~bs[j].falling
             /\ bs[j].position = <<bs[i].position[1], bs[i].position[2] + 1>>

(* a falling block that is not carried is at rest after grid_size ticks,   *)
(* whatever the spawns, when the ticks end no game, clear no row and leave *)
(* the block uncarried                                                     *)
ComesToRest(block_fall_speed) ==
    ~game_over =>
        \A i \in Indices(blocks) :
            (blocks[i].falling /\ ~blocks[i].carried) =>
                \A g \in AfterTicks({Cur}, GridSize, block_fall_speed) :
                    (~g.game_over /\ g.score = score) =>
                        AtRest(g.blocks, i, GridSize)

(* C39: if ticks keep running and the game does not end, every falling     *)
(* block that is not carried and not removed comes to rest on the bottom   *)
(* row or directly on top of a resting block, for the configured           *)
(* block_fall_speed (here 2), within grid_size ticks.                      *)
C39_FallingBlocksComeToRest == ComesToRest(FastFallSpeed)

(* the same with block_fall_speed 1, in at most grid_size ticks *)
FallSpeedOneComesToRest == ComesToRest(BlockFallSpeed)

(* ---------------------------------------------------------------------- *)
(* C40: if ticks keep running, a player who is unsupported, fall pending   *)
(* or falling, becomes grounded (in_air, is_falling false,                 *)
(* fall_delay_counter 0, supported) or the game ends, here within          *)
(* FALL_DELAY + grid_size ticks whatever the spawns; and a tick of a       *)
(* falling player stops the fall where the player has support and          *)
(* otherwise moves the player down by exactly one row, ending the fall if  *)
(* that row has support.                                                   *)
(* ---------------------------------------------------------------------- *)
PlayerGrounded(g) ==
    /\ ~g.player.in_air
    /\ ~g.player.is_falling
    /\ g.player.fall_delay_counter = 0
    /\ has_support(g.player, g.blocks, g.player.grid_size)

PlayerUnsupported(g) ==
    /\ ~g.player.in_air
    /\ g.player.is_falling \/ g.player.fall_delay_counter > 0
    /\ ~has_support(g.player, g.blocks, g.player.grid_size)

(* every run of at most n ticks from g comes to a grounded player or to    *)
(* game over                                                               *)
RECURSIVE GroundedWithin(_, _)
GroundedWithin(g, n) ==
    \/ g.game_over
    \/ PlayerGrounded(g)
    \/ /\ n > 0
       /\ \A x \in 0..(g.player.grid_size - 1) : GroundedWithin(update(g, x), n - 1)

FallStepsOneRow ==
    player.is_falling =>
        \A x \in SpawnColumns :
            LET g == update(Cur, x)
                n == player.grid_size
            IN  IF has_support(player, blocks, n)
                THEN /\ g.player.position = player.position
                     /\ ~g.player.is_falling
                ELSE /\ g.player.position = <<player.position[1], player.position[2] + 1>>
                     /\ g.player.is_falling = ~has_support(g.player, blocks, n)

C40_UnsupportedPlayerComesDown ==
    ~game_over =>
        /\ PlayerUnsupported(Cur) => GroundedWithin(Cur, FALL_DELAY + player.grid_size)
        /\ FallStepsOneRow

(* C40 witness: a tick has left the player falling on a row without        *)
(* support, one row above the row where it has support.                    *)
C40_Witness ==
    /\ op = "update"
    /\ ~game_over
    /\ PlayerUnsupported(Cur)
    /\ player.is_falling
    /\ player.position[2] > 0
    /\ has_support([player EXCEPT !.position = <<player.position[1],
                                                 player.position[2] + 1>>],
                   blocks, player.grid_size)

====
